---- MODULE Spec2Model ----
(***************************************************************************)
(* A model of the segmented append-only journal (andreyvit/journal):       *)
(* the on-disk segment files, the in-memory catalog (journalState), the    *)
(* single writer (journalWriter + segmentWriter), the segment reader, the  *)
(* cursor and the seal/trim engine.                                        *)
(*                                                                         *)
(* A file is a header plus a sequence of items.  An item is a record       *)
(* (timestamp delta + payload), a commit marker (checksum with bit 0 set)  *)
(* or, after a crash, a damaged tail: a record or commit cut after `at`    *)
(* bytes, or junk bytes.                                                   *)
(***************************************************************************)
EXTENDS Integers, Sequences, FiniteSets, TLC

\* ------------------------------------------------------------------ bounds

\* How many records WriteRecord accepts in one behaviour.
MaxRecs == 3
\* The injected clock runs from 1 to MaxClock.
MaxClock == 2
\* Options.MaxFileSize: the rotation threshold, in bytes.
MaxFileSize == 140

\* -------------------------------------------------------- program constants

segmentHeaderSize == 128
commitSize == 8

\* Payloads WriteRecord is called with (the empty one is refused).
Payloads == {<<>>, <<7>>, <<8, 9>>}

\* ------------------------------------------------------------------ values

Nil == [nil |-> TRUE]

\* Segment{}: the zero segment.
ZeroSeg == [status |-> "Invalid", segnum |-> 0, ts |-> 0, recnum |-> 0]

Seg(st, n, ts, rec) == [status |-> st, segnum |-> n, ts |-> ts, recnum |-> rec]

IsZero(seg) == seg.segnum = 0

WithStatus(seg, st) == [seg EXCEPT !.status = st]

\* Status is an iota enumeration: Invalid, Draft, Finalized, Sealed, sealingTemp.
StatusOrd(st) ==
    CASE st = "Invalid" -> 0
      [] st = "Draft" -> 1
      [] st = "Finalized" -> 2
      [] st = "Sealed" -> 3
      [] st = "sealingTemp" -> 4

IsSealed(st) == st = "Sealed"
IsDraft(st) == st = "Draft"
CanSealStatus(st) == st = "Finalized"

\* cmp.Compare on segnum, then on status: <0, 0, >0.
compareSegments(a, b) ==
    IF a.segnum # b.segnum
    THEN (IF a.segnum < b.segnum THEN -1 ELSE 1)
    ELSE IF StatusOrd(a.status) < StatusOrd(b.status) THEN -1
    ELSE IF StatusOrd(a.status) > StatusOrd(b.status) THEN 1
    ELSE 0

Meta(id, ts) == [ID |-> id, Timestamp |-> ts]

Max(a, b) == IF a > b THEN a ELSE b

\* Body applied to v: names an intermediate result that Body uses more than once.
Let(v, Body(_)) == Body(v)

\* ------------------------------------------------------------- file format

\* binary.MaxVarintLen64
MaxVarintLen64 == 10

\* maxRecHeaderLen: the bytes next() peeks at.
maxRecHeaderLen == MaxVarintLen64 + MaxVarintLen64

\* binary.AppendUvarint(nil, v): 7 bits per byte, low bits first.
RECURSIVE AppendUvarint(_)
AppendUvarint(v) ==
    IF v < 128 THEN <<v>> ELSE <<128 + (v % 128)>> \o AppendUvarint(v \div 128)

\* binary.Uvarint(b): the value and the count of bytes read; n = 0 when b ends
\* before the value does, n < 0 when the value overflows 64 bits.
RECURSIVE UvarintFrom(_, _, _, _)
UvarintFrom(b, i, x, m) ==
    IF i > Len(b) THEN [v |-> 0, n |-> 0]
    ELSE IF i > MaxVarintLen64 THEN [v |-> 0, n |-> 0 - i]
    ELSE IF b[i] < 128 THEN [v |-> x + b[i] * m, n |-> i]
    ELSE UvarintFrom(b, i + 1, x + (b[i] % 128) * m, m * 128)

Uvarint(b) == UvarintFrom(b, 1, 0, 1)

\* appendRecordHeader: uvarint(size << 1), uvarint(tsDelta).
appendRecordHeader(size, tsDelta) == AppendUvarint(size * 2) \o AppendUvarint(tsDelta)

\* appendSealedRecordHeader: uvarint(size), uvarint(tsDelta).
appendSealedRecordHeader(size, tsDelta) == AppendUvarint(size) \o AppendUvarint(tsDelta)

\* xxhash.Digest: Reset, Write and Sum64, as a 16-bit polynomial digest.
HashReset == 0

HashWrite(h, v) == (h * 31 + v + 7) % 65536

RECURSIVE HashWriteAll(_, _)
HashWriteAll(h, bytes) ==
    IF bytes = <<>> THEN h
    ELSE HashWriteAll(HashWrite(h, Head(bytes)), Tail(bytes))

\* dataHash.Sum64() | recordFlagCommit
CommitSum(h) == IF h % 2 = 1 THEN h ELSE h + 1

\* binary.LittleEndian.PutUint64 of a commit checksum.
CommitBytes(sum) ==
    [i \in 1..commitSize |-> IF i = 1 THEN sum % 256
                             ELSE IF i = 2 THEN (sum \div 256) % 256
                             ELSE 0]

\* fillSegmentHeader: the header of a segment file.  sumOK: the header checksum
\* matches the header bytes; inv: the JournalInvariant equals the journal's.
Header(magic, segnum, firstTS, firstRec, lastTS, lastRec) ==
    [magic |-> magic, segnum |-> segnum, firstTS |-> firstTS, firstRec |-> firstRec,
     lastTS |-> lastTS, lastRec |-> lastRec, sumOK |-> TRUE, inv |-> TRUE]

\* A file: its header and the bytes after the header.
File(hdr, bytes) == [hdr |-> hdr, bytes |-> bytes]

FileSize(file) == segmentHeaderSize + Len(file.bytes)

\* ------------------------------------------------------------- the directory

Remove(d, seg) == [s \in (DOMAIN d) \ {seg} |-> d[s]]

Put(d, seg, file) == [s \in (DOMAIN d) \cup {seg} |-> IF s = seg THEN file ELSE d[s]]

Exists(d, seg) == seg \in DOMAIN d

\* ---------------------------------------------------------- segment reader

\* readSegmentHeader that wants the Draft magic in a file with a Draft name.
readSegmentHeader_DraftOnly(hdr, seg) ==
    IF hdr = Nil THEN "corrupt"
    ELSE IF hdr.magic \notin {"D", "F", "S"} THEN "unsupported"
    ELSE IF IsSealed(seg.status) /\ hdr.magic # "S" THEN "corrupt"
    ELSE IF IsDraft(seg.status) /\ hdr.magic # "D" THEN "corrupt"
    ELSE IF seg.status = "Finalized" /\ hdr.magic # "F" THEN "corrupt"
    ELSE IF ~hdr.sumOK THEN "corrupt"
    ELSE IF seg.segnum # hdr.segnum THEN "corrupt"
    ELSE IF seg.ts # hdr.firstTS THEN "corrupt"
    ELSE IF seg.recnum # hdr.firstRec THEN "corrupt"
    ELSE IF ~hdr.inv THEN "incompatible"
    ELSE ""

\* readSegmentHeader: "" when the header is accepted.  A file shorter than the
\* header reads as corrupted (hdr = Nil).
readSegmentHeader(hdr, seg) ==
    IF hdr = Nil THEN "corrupt"
    ELSE IF hdr.magic \notin {"D", "F", "S"} THEN "unsupported"
    ELSE IF IsSealed(seg.status) /\ hdr.magic # "S" THEN "corrupt"
    ELSE IF IsDraft(seg.status) /\ hdr.magic \notin {"D", "F"} THEN "corrupt"
    ELSE IF seg.status = "Finalized" /\ hdr.magic # "F" THEN "corrupt"
    ELSE IF ~hdr.sumOK THEN "corrupt"
    ELSE IF seg.segnum # hdr.segnum THEN "corrupt"
    ELSE IF seg.ts # hdr.firstTS THEN "corrupt"
    ELSE IF seg.recnum # hdr.firstRec THEN "corrupt"
    ELSE IF ~hdr.inv THEN "incompatible"
    ELSE ""

\* newSegmentReader: the reader's state after the header.  pos is the index of
\* the next unread byte; data is the payload of the record last decoded.
newSegmentReader(file, seg) ==
    Let(readSegmentHeader(file.hdr, seg), LAMBDA err :
        [seg |-> seg, h |-> file.hdr, bytes |-> file.bytes, pos |-> 1,
         dataHash |-> HashReset, rec |-> seg.recnum - 1, ts |-> seg.ts,
         size |-> IF err = "" THEN segmentHeaderSize ELSE 0,
         recordsInSeg |-> 0, committedRec |-> 0, committedTS |-> 0,
         committedSize |-> IF err = "" THEN segmentHeaderSize ELSE 0,
         data |-> <<>>, err |-> err])

\* sr.r.Peek(n): the next n bytes, or as many as the file still has.
Peek(sr, n) ==
    SubSeq(sr.bytes, sr.pos, IF sr.pos + n - 1 < Len(sr.bytes) THEN sr.pos + n - 1 ELSE Len(sr.bytes))

\* The bytes left unread.
Remaining(sr) == Len(sr.bytes) - sr.pos + 1

\* The commit branch of next(): io.ReadFull of 8 bytes, then the comparison with
\* the running digest.  err "again": the commit is good and the loop goes on.
srCommit(sr) ==
    IF Remaining(sr) < commitSize
    THEN [sr EXCEPT !.pos = Len(sr.bytes) + 1, !.err = "corrupt"]
    ELSE Let(SubSeq(sr.bytes, sr.pos, sr.pos + commitSize - 1), LAMBDA b :
         Let([sr EXCEPT !.pos = @ + commitSize, !.dataHash = HashWriteAll(@, b)], LAMBDA hashed :
             IF b # CommitBytes(CommitSum(sr.dataHash)) THEN [hashed EXCEPT !.err = "corrupt"]
             ELSE IF sr.recordsInSeg > 0
             THEN [hashed EXCEPT !.size = @ + commitSize,
                                 !.committedRec = sr.rec,
                                 !.committedTS = sr.ts,
                                 !.committedSize = sr.size + commitSize,
                                 !.err = "again"]
             ELSE [hashed EXCEPT !.size = @ + commitSize, !.err = "corrupt"]))

\* The record branch of next() after its header of n bytes, with the payload size
\* and the timestamp delta, is decoded.  io.ReadFull of the payload gives
\* ErrUnexpectedEOF (corrupted) when the file ends inside the payload, and io.EOF,
\* which next() returns as it is, when the file ends right after the record header.
srPayload(sr, b, n, dataSize, tsdelta) ==
    Let([sr EXCEPT !.pos = @ + n,
                   !.dataHash = IF IsSealed(sr.seg.status) THEN @ ELSE HashWriteAll(@, SubSeq(b, 1, n))],
        LAMBDA read :
        IF dataSize > 0 /\ Remaining(read) = 0 THEN [read EXCEPT !.err = "EOF"]
        ELSE IF Remaining(read) < dataSize
        THEN [read EXCEPT !.pos = Len(sr.bytes) + 1, !.err = "corrupt"]
        ELSE Let(SubSeq(read.bytes, read.pos, read.pos + dataSize - 1), LAMBDA data :
             [read EXCEPT !.pos = @ + dataSize,
                          !.data = data,
                          !.recordsInSeg = @ + 1,
                          !.rec = @ + 1,
                          !.ts = @ + tsdelta,
                          !.size = @ + n + dataSize,
                          !.dataHash = IF IsSealed(sr.seg.status) THEN @ ELSE HashWriteAll(@, data),
                          !.committedRec = IF IsSealed(sr.seg.status) THEN sr.rec + 1 ELSE @,
                          !.committedTS = IF IsSealed(sr.seg.status) THEN sr.ts + tsdelta ELSE @,
                          !.committedSize = IF IsSealed(sr.seg.status) THEN sr.size + n + dataSize ELSE @,
                          !.err = ""]))

\* The record branch of next(): the two uvarints of the record header.
srRecord(sr, b) ==
    Let(Uvarint(b), LAMBDA sz :
        IF sz.n <= 0 THEN [sr EXCEPT !.err = "corrupt"]
        ELSE Let(Uvarint(SubSeq(b, sz.n + 1, Len(b))), LAMBDA td :
             IF td.n <= 0 THEN [sr EXCEPT !.err = "corrupt"]
             ELSE srPayload(sr, b, sz.n + td.n,
                            IF IsSealed(sr.seg.status) THEN sz.v ELSE sz.v \div 2, td.v)))

\* segmentReader.next: reads up to and including the next record.
\* err: "" (a record was decoded into data, rec, ts), "EOF" or "corrupt".
RECURSIVE srNext(_)
srNext(sr) ==
    Let(Peek(sr, maxRecHeaderLen), LAMBDA b :
        IF Len(b) = 0
        THEN IF IsSealed(sr.seg.status) \/ sr.size = sr.committedSize
             THEN [sr EXCEPT !.err = "EOF"]
             ELSE [sr EXCEPT !.err = "corrupt"]
        ELSE IF ~IsSealed(sr.seg.status) /\ b[1] % 2 = 1
        THEN Let(srCommit(sr), LAMBDA c :
                 IF c.err = "again" THEN srNext([c EXCEPT !.err = ""]) ELSE c)
        ELSE srRecord(sr, b))

\* verifySegment: reads to the end of the file or to the first error.
\* err "" means the file read to io.EOF.
RECURSIVE verifyLoop(_)
verifyLoop(sr) ==
    Let(srNext(sr), LAMBDA n :
        IF n.err = "EOF" THEN [n EXCEPT !.err = ""]
        ELSE IF n.err # "" THEN n
        ELSE verifyLoop(n))

verifySegment(file, seg) ==
    Let(newSegmentReader(file, seg), LAMBDA sr :
        IF sr.err # "" THEN sr ELSE verifyLoop(sr))

\* loadSegmentHeader: the header of seg's file, or an error.
loadSegmentHeader(d, seg) ==
    IF ~Exists(d, seg) THEN [err |-> "gone", h |-> Nil]
    ELSE [err |-> readSegmentHeader(d[seg].hdr, seg), h |-> d[seg].hdr]

\* ------------------------------------------------------ catalog (journalState)

NewState ==
    [initialized |-> FALSE, err |-> "", unsealed |-> <<>>, sealed |-> <<>>, sealingTemp |-> ZeroSeg,
     lastKnown |-> FALSE, lastCommitted |-> Meta(0, 0), lastRaw |-> Meta(0, 0)]

\* slices.SortFunc(all, compareSegments)
RECURSIVE SortSegments(_)
SortSegments(S) ==
    IF S = {} THEN <<>>
    ELSE LET m == CHOOSE x \in S : \A y \in S : compareSegments(x, y) <= 0
         IN <<m>> \o SortSegments(S \ {m})

IndexOf(seq, x) ==
    IF \E i \in 1..Len(seq) : seq[i] = x
    THEN CHOOSE i \in 1..Len(seq) : seq[i] = x /\ \A k \in 1..(i - 1) : seq[k] # x
    ELSE 0

DeleteAt(seq, i) == SubSeq(seq, 1, i - 1) \o SubSeq(seq, i + 1, Len(seq))

SeqRange(seq) == {seq[i] : i \in 1..Len(seq)}

\* enumSegments: every file of the directory whose name parses as a segment.
enumSegments(d) == DOMAIN d

\* The loop of initialize over the sorted segments: a segment whose segnum does not
\* exceed the largest seen so far is undesirable.
RECURSIVE initPlace(_, _, _)
initPlace(all, maxSeg, acc) ==
    IF all = <<>> THEN acc
    ELSE LET seg == Head(all)
         IN IF seg.segnum > maxSeg
            THEN initPlace(Tail(all), seg.segnum,
                           IF IsSealed(seg.status)
                           THEN [acc EXCEPT !.sealed = Append(@, seg)]
                           ELSE [acc EXCEPT !.unsealed = Append(@, seg)])
            ELSE initPlace(Tail(all), maxSeg, [acc EXCEPT !.undesirables = @ \cup {seg}])

\* journalState.initialize: builds the two sequences from the directory and
\* removes the undesirable files (sealing temps, and files whose segnum repeats).
\* Gives [js, dir].
initialize(js, d) ==
    Let({seg \in enumSegments(d) : seg.status = "sealingTemp"}, LAMBDA temps :
    Let(initPlace(SortSegments(enumSegments(d) \ temps), 0,
                  [sealed |-> <<>>, unsealed |-> <<>>, undesirables |-> temps]),
        LAMBDA placed :
        [js |-> [js EXCEPT !.sealed = placed.sealed, !.unsealed = placed.unsealed],
         dir |-> [seg \in (DOMAIN d) \ placed.undesirables |-> d[seg]]]))

\* journalState.ensureInitialized.  Gives [js, dir].
ensureInitialized(js, d) ==
    IF js.initialized THEN [js |-> js, dir |-> d]
    ELSE initialize([js EXCEPT !.initialized = TRUE], d)

\* journalState.reset
reset(js) == [js EXCEPT !.initialized = FALSE, !.err = "", !.unsealed = <<>>]

\* journalState.initialize when the directory may fail: with the fault "enum"
\* enumSegments returns an error before anything is assigned, with "remove"
\* the removal of an undesirable file does, after the sequences are assigned.
\* Gives [js, dir, err].
initializeWith(js, d, fault) ==
    Let(initialize(js, d), LAMBDA r :
        IF fault = "enum" THEN [js |-> js, dir |-> d, err |-> "io"]
        ELSE IF fault = "remove" /\ DOMAIN r.dir # DOMAIN d
        THEN [js |-> r.js, dir |-> d, err |-> "io"]
        ELSE [js |-> r.js, dir |-> r.dir, err |-> ""])

\* ensureInitialized that takes no note of the error of initialize.
ensureInitializedWith_Forgetful(js, d, fault) ==
    IF js.err # "" THEN [js |-> js, dir |-> d, err |-> js.err]
    ELSE IF js.initialized THEN [js |-> js, dir |-> d, err |-> ""]
    ELSE initializeWith([js EXCEPT !.initialized = TRUE], d, fault)

\* journalState.ensureInitialized with its error: the stored error, nil for an
\* initialized catalog, or else what initialize returns, which is stored.
\* Gives [js, dir, err].
ensureInitializedWith(js, d, fault) ==
    IF js.err # "" THEN [js |-> js, dir |-> d, err |-> js.err]
    ELSE IF js.initialized THEN [js |-> js, dir |-> d, err |-> ""]
    ELSE Let(initializeWith([js EXCEPT !.initialized = TRUE], d, fault), LAMBDA r :
             [js |-> [r.js EXCEPT !.err = r.err], dir |-> r.dir, err |-> r.err])

lastUnsealed(js) ==
    IF Len(js.unsealed) > 0 THEN js.unsealed[Len(js.unsealed)] ELSE ZeroSeg

lastSealed(js) ==
    IF Len(js.sealed) > 0 THEN js.sealed[Len(js.sealed)] ELSE ZeroSeg

\* journalState.last
last(js) ==
    LET u == lastUnsealed(js)
        s == lastSealed(js)
    IN IF IsZero(u) \/ (~IsZero(s) /\ s.segnum > u.segnum) THEN s ELSE u

\* journalState.nextToSeal
nextToSeal(js) ==
    LET lastS == lastSealed(js)
        cand == {i \in 1..Len(js.unsealed) : IsZero(lastS) \/ js.unsealed[i].segnum > lastS.segnum}
    IN IF cand = {} THEN ZeroSeg
       ELSE js.unsealed[CHOOSE i \in cand : \A k \in cand : i <= k]

\* journalState.nextToTrim
nextToTrim(js) ==
    IF Len(js.unsealed) > 0
         /\ ~IsZero(lastSealed(js))
         /\ js.unsealed[1].segnum <= lastSealed(js).segnum
    THEN js.unsealed[1]
    ELSE ZeroSeg

\* journalState.addSegment.  A segment that does not sort after the last one of
\* its sequence panics: the result carries panic = TRUE.
addSegment(js, seg) ==
    IF ~js.initialized THEN [js |-> js, panic |-> FALSE]
    ELSE IF IsSealed(seg.status)
    THEN IF Len(js.sealed) > 0 /\ compareSegments(seg, js.sealed[Len(js.sealed)]) <= 0
         THEN [js |-> js, panic |-> TRUE]
         ELSE [js |-> [js EXCEPT !.sealed = Append(@, seg)], panic |-> FALSE]
    ELSE IF Len(js.unsealed) > 0 /\ compareSegments(seg, js.unsealed[Len(js.unsealed)]) <= 0
         THEN [js |-> js, panic |-> TRUE]
         ELSE [js |-> [js EXCEPT !.unsealed = Append(@, seg)], panic |-> FALSE]

\* journalState.removeSegment
removeSegment(js, seg) ==
    IF ~js.initialized THEN js
    ELSE IF IsSealed(seg.status)
    THEN (IF IndexOf(js.sealed, seg) > 0
          THEN [js EXCEPT !.sealed = DeleteAt(@, IndexOf(js.sealed, seg))] ELSE js)
    ELSE (IF IndexOf(js.unsealed, seg) > 0
          THEN [js EXCEPT !.unsealed = DeleteAt(@, IndexOf(js.unsealed, seg))] ELSE js)

\* journalState.replaceSegment
replaceSegment(js, oldSeg, newSeg) ==
    IF ~js.initialized THEN js
    ELSE IF IndexOf(js.unsealed, oldSeg) > 0
    THEN [js EXCEPT !.unsealed[IndexOf(js.unsealed, oldSeg)] = newSeg]
    ELSE js

\* journalState.summary
summary(js) ==
    [FirstSealedSegment |-> IF Len(js.sealed) > 0 THEN js.sealed[1] ELSE ZeroSeg,
     LastSealedSegment |-> IF Len(js.sealed) > 0 THEN js.sealed[Len(js.sealed)] ELSE ZeroSeg,
     FirstUnsealedSegment |-> IF Len(js.unsealed) > 0 THEN js.unsealed[1] ELSE ZeroSeg,
     LastUnsealedSegment |-> IF Len(js.unsealed) > 0 THEN js.unsealed[Len(js.unsealed)] ELSE ZeroSeg,
     SegmentCount |-> Len(js.unsealed) + Len(js.sealed),
     LastCommitted |-> js.lastCommitted,
     LastUncommitted |-> js.lastRaw]

\* journalState.setLastRecord
setLastRecord(js, lastCommitted, lastRaw) ==
    [js EXCEPT !.lastKnown = TRUE, !.lastCommitted = lastCommitted, !.lastRaw = lastRaw]

\* journalState.setLastUncommittedRecord
setLastUncommittedRecord(js, lastRaw) ==
    [js EXCEPT !.lastKnown = TRUE, !.lastRaw = lastRaw]

\* journalState.setLastRecordUnknown
setLastRecordUnknown(js) == [js EXCEPT !.lastKnown = FALSE]

\* ------------------------------------------------------------ segment writer

\* closeMode
closeAndContinueLater == "closeAndContinueLater"
closeWithoutCommitting == "closeWithoutCommitting"
closeAndFinalize == "closeAndFinalize"

shouldCommit(mode) == mode # closeWithoutCommitting
shouldFinalize(mode) == mode = closeAndFinalize

\* The world the operations act on: the directory, the catalog, the writer, and
\* whether the process has panicked.
World(d, state, writer, p) == [dir |-> d, js |-> state, jw |-> writer, panicked |-> p]

\* Journal.lastSegment, nextToSeal, ...: each initializes the catalog first.
WithInit(w) ==
    Let(ensureInitialized(w.js, w.dir), LAMBDA r :
        [w EXCEPT !.js = r.js, !.dir = r.dir])

updateStateWithSegmentAdded(w, seg) ==
    Let(addSegment(w.js, seg), LAMBDA r :
        [w EXCEPT !.js = r.js, !.panicked = @ \/ r.panic])

updateStateWithSegmentGone(w, seg) == [w EXCEPT !.js = removeSegment(@, seg)]

updateStateWithSegmentFinalized(w, oldSeg, newSeg) ==
    [w EXCEPT !.js = replaceSegment(@, oldSeg, newSeg)]

\* resetState
resetState(w) == [w EXCEPT !.js = reset(@)]

\* f.Write(bytes) on the writer's open file: the bytes go to the end of the file
\* (a file removed from the directory takes them without a trace).
WriteBytes(d, seg, bytes) ==
    IF Exists(d, seg) THEN [d EXCEPT ![seg].bytes = @ \o bytes] ELSE d

NewSegmentWriter(seg, ts, nextRec, size, dataHash, modified) ==
    [seg |-> seg, ts |-> ts, nextRec |-> nextRec, size |-> size, dataHash |-> dataHash,
     uncommitted |-> FALSE, modified |-> modified, firstUncommittedWriteTS |-> 0]

\* startSegment: creates the Draft file with its header and adds it to the catalog.
\* Gives [w, sw].
startSegment(w, segnum, ts, rec) ==
    Let(Seg("Draft", segnum, ts, rec), LAMBDA seg :
        [w |-> updateStateWithSegmentAdded(
                   [w EXCEPT !.dir = Put(@, seg, File(Header("D", segnum, ts, rec, 0, 0), <<>>))],
                   seg),
         sw |-> NewSegmentWriter(seg, ts, rec, segmentHeaderSize, HashReset, TRUE)])

\* WriterFor giving the next record the number of the last one read.
WriterFor_SameRec(sr) == NewSegmentWriter(sr.seg, sr.ts, sr.rec, sr.committedSize, sr.dataHash, FALSE)

\* The writer continueSegment returns for a verified reader.
WriterFor(sr) == NewSegmentWriter(sr.seg, sr.ts, sr.rec + 1, sr.committedSize, sr.dataHash, FALSE)

\* continueSegment once the file is truncated to committedSize: it is verified
\* again, and a disagreement about its size is a panic.  Gives [w, sw, err].
continueTruncated(w, seg, cut) ==
    Let(verifySegment(cut, seg), LAMBDA sr2 :
        IF sr2.err # ""
        THEN [w |-> [w EXCEPT !.dir = Put(@, seg, cut)], sw |-> Nil, err |-> "recover"]
        ELSE [w |-> [w EXCEPT !.dir = Put(@, seg, cut),
                              !.panicked = @ \/ sr2.size # sr2.committedSize],
              sw |-> WriterFor(sr2), err |-> ""])

\* continueSegment once the file is open (created empty if it was missing).
continueOpened(w, seg, file) ==
    Let(verifySegment(file, seg), LAMBDA sr :
        IF sr.err = "corrupt"
        THEN IF sr.committedRec = 0
             THEN [w |-> [updateStateWithSegmentGone(w, seg) EXCEPT !.dir = Remove(@, seg)],
                   sw |-> Nil, err |-> "gone"]
             ELSE continueTruncated(w, seg,
                      File(file.hdr, SubSeq(file.bytes, 1, sr.committedSize - segmentHeaderSize)))
        ELSE [w |-> w, sw |-> WriterFor(sr), err |-> ""])

\* continueSegment: opens (creating it if missing) and verifies the Draft; a
\* corrupted file with no valid commit is deleted, one with a valid commit is
\* truncated to committedSize and verified again.  Gives [w, sw, err].
continueSegment(w, seg) ==
    Let(IF Exists(w.dir, seg) THEN w.dir[seg] ELSE File(Nil, <<>>), LAMBDA file :
        continueOpened([w EXCEPT !.dir = Put(@, seg, file)], seg, file))

\* writeRecord that takes every timestamp for its running timestamp.
writeRecord_Lowering(w, ts, data) ==
    Let(w.jw.segWriter, LAMBDA sw :
    Let(appendRecordHeader(Len(data), IF ts > sw.ts THEN ts - sw.ts ELSE 0), LAMBDA h :
        [w EXCEPT !.dir = WriteBytes(@, sw.seg, h \o data),
                  !.jw.segWriter = [sw EXCEPT !.ts = ts,
                                              !.dataHash = HashWriteAll(HashWriteAll(@, h), data),
                                              !.uncommitted = TRUE,
                                              !.modified = TRUE,
                                              !.nextRec = @ + 1,
                                              !.size = @ + Len(h) + Len(data)]]))

\* segmentWriter.writeRecord on the writer's segment.
writeRecord(w, ts, data) ==
    Let(w.jw.segWriter, LAMBDA sw :
    Let(appendRecordHeader(Len(data), IF ts > sw.ts THEN ts - sw.ts ELSE 0), LAMBDA h :
        [w EXCEPT !.dir = WriteBytes(@, sw.seg, h \o data),
                  !.jw.segWriter = [sw EXCEPT !.ts = IF ts > sw.ts THEN ts ELSE @,
                                              !.dataHash = HashWriteAll(HashWriteAll(@, h), data),
                                              !.uncommitted = TRUE,
                                              !.modified = TRUE,
                                              !.nextRec = @ + 1,
                                              !.size = @ + Len(h) + Len(data)]]))

\* commit that writes its marker whether a record is uncommitted or not.
commit_Always(w) ==
    Let(w.jw.segWriter, LAMBDA sw :
    Let(CommitBytes(CommitSum(sw.dataHash)), LAMBDA buf :
        [w EXCEPT !.dir = WriteBytes(@, sw.seg, buf),
                  !.jw.segWriter = [sw EXCEPT !.uncommitted = FALSE,
                                              !.modified = TRUE,
                                              !.size = @ + commitSize,
                                              !.dataHash = HashWriteAll(@, buf)]]))

\* segmentWriter.commit: nothing when nothing is uncommitted.
commit(w) ==
    Let(w.jw.segWriter, LAMBDA sw :
    Let(CommitBytes(CommitSum(sw.dataHash)), LAMBDA buf :
        IF ~sw.uncommitted THEN w
        ELSE [w EXCEPT !.dir = WriteBytes(@, sw.seg, buf),
                       !.jw.segWriter = [sw EXCEPT !.uncommitted = FALSE,
                                                   !.modified = TRUE,
                                                   !.size = @ + commitSize,
                                                   !.dataHash = HashWriteAll(@, buf)]]))

\* The finalizing part of close: the header is rewritten with the last timestamp
\* and record number, and the Draft is renamed to Finalized.  Gives [w, err].
finalize(c) ==
    Let(c.jw.segWriter, LAMBDA sw :
    Let(WithStatus(sw.seg, "Finalized"), LAMBDA newSeg :
        IF ~Exists(c.dir, sw.seg) THEN [w |-> c, err |-> "rename"]
        ELSE [w |-> updateStateWithSegmentFinalized(
                        [c EXCEPT !.dir = Put(Remove(@, sw.seg), newSeg,
                                              File(Header("F", sw.seg.segnum, sw.seg.ts, sw.seg.recnum,
                                                          sw.ts, sw.nextRec - 1),
                                                   c.dir[sw.seg].bytes)),
                                  !.jw.segWriter.seg = newSeg],
                        sw.seg, newSeg),
              err |-> ""]))

\* segmentWriter.close: commits; closeAndFinalize on a Draft finalizes it.
\* Gives [w, err].
close(w, mode) ==
    IF ~shouldCommit(mode) THEN [w |-> w, err |-> ""]
    ELSE Let(commit(w), LAMBDA c :
             IF shouldFinalize(mode) /\ c.jw.segWriter.seg.status = "Draft"
             THEN finalize(c)
             ELSE [w |-> c, err |-> ""])

\* shouldRotate that never asks for a rotation.
shouldRotate_Never(sw, size) == FALSE

\* shouldRotate that looks at the segment's size alone.
shouldRotate_SizeOnly(sw, size) == sw.size > MaxFileSize

\* segmentWriter.shouldRotate
shouldRotate(sw, size) == sw.size + size > MaxFileSize

\* segmentWriter.lastMeta: the id and timestamp of the last record written.
lastMeta(sw) == Meta(sw.nextRec - 1, sw.ts)

\* ------------------------------------------------------------ journal writer

NewWriter ==
    [writable |-> FALSE, writeErr |-> "", segWriter |-> Nil, nextSegNum |-> 0, nextRecNum |-> 0]

\* Journal.setLastRecord and its relatives, on the world.
setLastRecordW(w, lastCommitted, lastRaw) ==
    [w EXCEPT !.js = setLastRecord(@, lastCommitted, lastRaw)]

\* journalWriter.handleCommit
handleCommit(w, lastRec) == setLastRecordW(w, lastRec, lastRec)

\* journalWriter.close_locked.  When close fails the writer is dropped before its
\* lastMeta is read: a nil dereference, the process panics.  Gives [w, err].
close_locked(w, mode) ==
    Let(close(IF shouldFinalize(mode)
              THEN [w EXCEPT !.jw.nextSegNum = w.jw.segWriter.seg.segnum + 1,
                             !.jw.nextRecNum = w.jw.segWriter.nextRec]
              ELSE w,
              mode),
        LAMBDA r :
        IF r.err # ""
        THEN [w |-> [r.w EXCEPT !.jw.segWriter = Nil,
                                !.js = setLastRecordUnknown(@),
                                !.panicked = TRUE],
              err |-> r.err]
        ELSE [w |-> [handleCommit(r.w, lastMeta(r.w.jw.segWriter)) EXCEPT !.jw.segWriter = Nil],
              err |-> ""])

\* journalWriter.finishWriting_locked.  Gives [w, err].
finishWriting_locked(w, mode) ==
    IF w.jw.segWriter # Nil THEN close_locked([w EXCEPT !.jw.writable = FALSE], mode)
    ELSE [w |-> [w EXCEPT !.jw.writable = FALSE], err |-> ""]

\* journalWriter.fail: on an error stops writing without committing.  writeErr is
\* assigned only when it is already set.
fail(w, err) ==
    IF err = "" THEN w
    ELSE Let(finishWriting_locked(w, closeWithoutCommitting).w, LAMBDA f :
             [f EXCEPT !.jw.writeErr = IF @ # "" THEN err ELSE @])

\* prepareToWrite_locked_once when the last segment is a Draft.
prepareDraft(w, lastSeg, failed) ==
    Let(continueSegment(w, lastSeg), LAMBDA r :
        IF r.err # ""
        THEN [w |-> r.w, err |-> r.err, failed |-> lastSeg]
        ELSE [w |-> setLastRecordW([r.w EXCEPT !.jw.segWriter = r.sw],
                                   lastMeta(r.sw), lastMeta(r.sw)),
              err |-> "", failed |-> failed])

\* prepareToWrite_locked_once when the last segment is Finalized or Sealed.
prepareAfter(w, lastSeg, failed) ==
    Let(loadSegmentHeader(w.dir, lastSeg), LAMBDA l :
        IF l.err # ""
        THEN [w |-> w, err |-> l.err, failed |-> lastSeg]
        ELSE [w |-> setLastRecordW([w EXCEPT !.jw.nextSegNum = lastSeg.segnum + 1,
                                             !.jw.nextRecNum = l.h.lastRec + 1],
                                   Meta(l.h.lastRec, l.h.lastTS), Meta(l.h.lastRec, l.h.lastTS)),
              err |-> "", failed |-> failed])

\* prepareToWrite_locked_once, the catalog initialized.
prepareLast(w0, lastSeg, failed) ==
    IF IsZero(lastSeg)
    THEN [w |-> setLastRecordW([w0 EXCEPT !.jw.nextSegNum = 1, !.jw.nextRecNum = 1],
                               Meta(0, 0), Meta(0, 0)),
          err |-> "", failed |-> failed]
    ELSE IF lastSeg = failed
    THEN [w |-> w0, err |-> "failed twice", failed |-> failed]
    ELSE IF IsDraft(lastSeg.status) THEN prepareDraft(w0, lastSeg, failed)
    ELSE prepareAfter(w0, lastSeg, failed)

\* journalWriter.prepareToWrite_locked_once.  Gives [w, err, failed].
prepareToWrite_locked_once(w, failed) ==
    Let(WithInit(w), LAMBDA w0 : prepareLast(w0, last(w0.js), failed))

\* journalWriter.prepareToWrite_locked: tries again, with the catalog reset, for
\* as long as the last segment's file turns out to be gone.  Gives [w, err].
RECURSIVE prepareLoop(_, _)
prepareLoop(w, failed) ==
    Let(prepareToWrite_locked_once(w, failed), LAMBDA r :
        IF r.err = "gone" THEN prepareLoop(resetState(r.w), r.failed)
        ELSE [w |-> r.w, err |-> r.err])

prepareToWrite_locked(w) == prepareLoop(w, ZeroSeg)

\* journalWriter.ensurePreparedToWrite_locked.  Gives [w, err].
ensurePreparedToWrite_locked(w) ==
    IF w.jw.writeErr # "" THEN [w |-> w, err |-> w.jw.writeErr]
    ELSE IF w.jw.writable THEN [w |-> w, err |-> ""]
    ELSE Let(prepareToWrite_locked(w), LAMBDA r :
             IF r.err # "" THEN [w |-> fail(r.w, r.err), err |-> r.err]
             ELSE [w |-> [r.w EXCEPT !.jw.writable = TRUE], err |-> ""])

\* journalWriter.StartWriting together with its goroutine, which keeps the write
\* lock until the preparation is over.
StartWriting(w) ==
    IF w.jw.writable \/ w.jw.writeErr # "" THEN w
    ELSE Let(prepareToWrite_locked([w EXCEPT !.jw.writable = TRUE]), LAMBDA r :
             fail(r.w, r.err))

\* journalWriter.FinishWriting.  Gives [w, err].
FinishWriting(w, mode) == finishWriting_locked(w, mode)

\* WriteRecord's note of the clock that is made at every record.
WriteToOpen_Latest(w, timestamp, data, now) ==
    [w |-> writeRecord(
               [w EXCEPT !.jw.segWriter.firstUncommittedWriteTS = now,
                         !.js = setLastUncommittedRecord(@, Meta(w.jw.segWriter.nextRec, timestamp))],
               timestamp, data),
     err |-> "", wrote |-> TRUE]

\* WriteRecord with a segment open: notes the record as the last uncommitted one
\* and appends it.  Gives [w, err, wrote].
WriteToOpen(w, timestamp, data, now) ==
    [w |-> writeRecord(
               [w EXCEPT !.jw.segWriter.firstUncommittedWriteTS =
                             IF w.jw.segWriter.uncommitted THEN @ ELSE now,
                         !.js = setLastUncommittedRecord(@, Meta(w.jw.segWriter.nextRec, timestamp))],
               timestamp, data),
     err |-> "", wrote |-> TRUE]

\* WriteRecord once the writer is prepared and rotated: starts a segment if none
\* is open.  Gives [w, err, wrote].
WriteToSegment(w, timestamp, data, now) ==
    IF w.jw.segWriter = Nil
    THEN Let(startSegment(w, w.jw.nextSegNum, timestamp, w.jw.nextRecNum), LAMBDA s :
             WriteToOpen([s.w EXCEPT !.jw.segWriter = s.sw], timestamp, data, now))
    ELSE WriteToOpen(w, timestamp, data, now)

\* WriteRecord after the preparation: a segment that the record would overfill
\* is finalized first.  Gives [w, err, wrote].
WritePrepared(w, timestamp, data, now) ==
    IF w.jw.segWriter # Nil /\ shouldRotate(w.jw.segWriter, Len(data))
    THEN Let(close_locked(w, closeAndFinalize), LAMBDA c :
             IF c.err # "" THEN [w |-> c.w, err |-> c.err, wrote |-> FALSE]
             ELSE WriteToSegment(c.w, timestamp, data, now))
    ELSE WriteToSegment(w, timestamp, data, now)

\* journalWriter.WriteRecord.  ts = 0 stands for "now".  A failed preparation
\* is reported as success; empty data is ignored.  Gives [w, err, wrote].
WriteRecord(w, ts, data, now) ==
    IF Len(data) = 0 THEN [w |-> w, err |-> "", wrote |-> FALSE]
    ELSE Let(ensurePreparedToWrite_locked(w), LAMBDA p :
             IF p.err # "" THEN [w |-> p.w, err |-> "", wrote |-> FALSE]
             ELSE WritePrepared(p.w, IF ts = 0 THEN now ELSE ts, data, now))

\* journalWriter.Commit
Commit(w) ==
    IF w.jw.segWriter = Nil THEN w
    ELSE Let(commit(w), LAMBDA c : handleCommit(c, lastMeta(c.jw.segWriter)))

\* Options.Autocommit.Interval, in milliseconds.
AutocommitInterval == 1

\* Whether Autocommit(now) of a journal with autocommit interval dur commits:
\* the bool it returns.
Autocommits(w, now, dur) ==
    /\ dur # 0
    /\ w.jw.segWriter # Nil
    /\ w.jw.segWriter.uncommitted
    /\ ~(now - w.jw.segWriter.firstUncommittedWriteTS < dur)

\* journalWriter.Autocommit of a journal with autocommit interval dur.
AutocommitWith(w, now, dur) == IF Autocommits(w, now, dur) THEN Commit(w) ELSE w

\* journalWriter.Autocommit(now), the write lock held: commits when the first
\* uncommitted write is at least the interval old.  Gives the world.
Autocommit(w, now) == AutocommitWith(w, now, AutocommitInterval)

\* Journal.Rotate that leaves alone a Draft which is only on disk.
RotateLast_Skip(w0) == [w |-> w0, err |-> ""]

\* Journal.Rotate after its first FinishWriting: a Draft left on disk by an
\* earlier FinishWriting is reopened and finalized.  Gives [w, err].
RotateLast(w0) ==
    IF IsZero(last(w0.js)) \/ ~IsDraft(last(w0.js).status) THEN [w |-> w0, err |-> ""]
    ELSE FinishWriting(StartWriting(w0), closeAndFinalize)

\* Journal.Rotate: finalizes the open segment.  Gives [w, err].
Rotate(w) ==
    Let(FinishWriting(w, closeAndFinalize), LAMBDA f :
        IF f.err # "" THEN f ELSE RotateLast(WithInit(f.w)))

\* ------------------------------------------------------------------- cursor

Filter(minRec, minTS, maxRec, maxTS) ==
    [MinRecordID |-> minRec, MinTimestamp |-> minTS, MaxRecordID |-> maxRec, MaxTimestamp |-> maxTS]

\* Filter{}
NoFilter == Filter(0, 0, 0, 0)

\* The first loop of findUnsealedSegments / findKnownSealedSegments: drops from
\* the end the segments that start after the filter's upper bounds.
RECURSIVE FilterEnd(_, _, _)
FilterEnd(segs, filter, end) ==
    IF end > 0 /\ ((filter.MaxRecordID > 0 /\ segs[end].recnum > filter.MaxRecordID)
                   \/ (filter.MaxTimestamp > 0 /\ segs[end].ts > filter.MaxTimestamp))
    THEN FilterEnd(segs, filter, end - 1)
    ELSE end

\* The second loop: the index (from 0) of the first segment that starts at or
\* after the filter's lower bounds, and whether it starts exactly there.
RECURSIVE FilterStart(_, _, _, _)
FilterStart(segs, filter, start, end) ==
    IF start < end
    THEN LET first == segs[start + 1]
         IN IF first.recnum = filter.MinRecordID /\ first.ts = filter.MinTimestamp
            THEN [start |-> start, exactMatch |-> TRUE]
            ELSE IF first.recnum >= filter.MinRecordID /\ first.ts >= filter.MinTimestamp
            THEN [start |-> start, exactMatch |-> FALSE]
            ELSE FilterStart(segs, filter, start + 1, end)
    ELSE [start |-> start, exactMatch |-> FALSE]

\* FilterSegments without the segment in front of the first that starts at or
\* after the lower bounds.
FilterSegments_NoneBefore(segs, filter) ==
    LET end == FilterEnd(segs, filter, Len(segs))
        s == FilterStart(segs, filter, 0, end)
    IN SubSeq(segs, s.start + 1, end)

\* The body the two find functions share: segs[start:end], with one segment more
\* in front unless the match is exact.
FilterSegments(segs, filter) ==
    LET end == FilterEnd(segs, filter, Len(segs))
        s == FilterStart(segs, filter, 0, end)
    IN IF s.exactMatch THEN SubSeq(segs, s.start + 1, end)
       ELSE IF s.start > 0 THEN SubSeq(segs, s.start, end)
       ELSE SubSeq(segs, 1, end)

\* journalState.findUnsealedSegments
findUnsealedSegments(js, filter) == FilterSegments(js.unsealed, filter)

\* journalState.sealedSegmentsBeforeUnsealed: the sealed segments below the first
\* unsealed one.
RECURSIVE DropFrom(_, _)
DropFrom(sealed, segnum) ==
    IF Len(sealed) > 0 /\ sealed[Len(sealed)].segnum >= segnum
    THEN DropFrom(SubSeq(sealed, 1, Len(sealed) - 1), segnum)
    ELSE sealed

\* All the sealed segments, also those that still have an unsealed copy.
sealedSegmentsBeforeUnsealed_All(js) == js.sealed

sealedSegmentsBeforeUnsealed(js) ==
    IF Len(js.unsealed) = 0 THEN js.sealed ELSE DropFrom(js.sealed, js.unsealed[1].segnum)

\* journalState.findKnownSealedSegments
findKnownSealedSegments(js, filter) == FilterSegments(sealedSegmentsBeforeUnsealed(js), filter)

\* findKnownSegments with the sealed segments after the unsealed ones.
findKnownSegments_UnsealedFirst(js, filter) ==
    findUnsealedSegments(js, filter) \o findKnownSealedSegments(js, filter)

\* Journal.findKnownSegments, the catalog already initialized.
findKnownSegments(js, filter) ==
    findKnownSealedSegments(js, filter) \o findUnsealedSegments(js, filter)

\* The filter checks of Cursor.next on a decoded record.
Passes(filter, id, ts) ==
    /\ ~(filter.MinRecordID # 0 /\ id < filter.MinRecordID)
    /\ ~(filter.MaxRecordID # 0 /\ id > filter.MaxRecordID)
    /\ ~(filter.MinTimestamp # 0 /\ ts < filter.MinTimestamp)
    /\ ~(filter.MaxTimestamp # 0 /\ ts > filter.MaxTimestamp)

\* Cursor.next over one open segment, to its end or its first error: every
\* decoded record that passes the filter is yielded at once.  Gives [out, err].
RECURSIVE readSegment(_, _, _)
readSegment(sr, filter, out) ==
    Let(srNext(sr), LAMBDA n :
        IF n.err = "EOF" THEN [out |-> out, err |-> ""]
        ELSE IF n.err # "" THEN [out |-> out, err |-> n.err]
        ELSE readSegment(n, filter,
                         IF Passes(filter, n.rec, n.ts)
                         THEN Append(out, [ID |-> n.rec, Timestamp |-> n.ts, Data |-> n.data])
                         ELSE out))

\* openSegment: a missing file is errFileGone, a bad header its error.
openSegment(d, seg) ==
    IF ~Exists(d, seg) THEN [sr |-> Nil, err |-> "gone"]
    ELSE Let(newSegmentReader(d[seg], seg), LAMBDA sr : [sr |-> sr, err |-> sr.err])

\* Cursor.next with no segment open: opens the next one and reads it.
readOpened(o, filter, out) ==
    IF o.err # "" THEN [out |-> out, err |-> o.err] ELSE readSegment(o.sr, filter, out)

\* Cursor.next called until it fails or ends: the segments one after another.
\* Gives [out, err].
RECURSIVE readSegments(_, _, _, _)
readSegments(d, segs, filter, out) ==
    IF segs = <<>> THEN [out |-> out, err |-> ""]
    ELSE Let(readOpened(openSegment(d, Head(segs)), filter, out), LAMBDA r :
             IF r.err # "" THEN r ELSE readSegments(d, Tail(segs), filter, r.out))

\* The cursor drained over an initialized catalog.  Gives [w, out, err].
ReadKnown(w0, filter) ==
    Let(readSegments(w0.dir, findKnownSegments(w0.js, filter), filter, <<>>), LAMBDA r :
        [w |-> w0, out |-> r.out, err |-> r.err])

\* Journal.Read(filter) drained: the records the cursor yields and the error it
\* ends with.  Gives [w, out, err].
Read(w, filter) == ReadKnown(WithInit(w), filter)

\* Segment.FirstRecord
FirstRecordOf(seg) == Meta(seg.recnum, seg.ts)

\* Summary.FirstRecord: the first record of the first sealed or the first
\* unsealed segment, whichever has the smaller id.
FirstRecord(sum) ==
    Let(FirstRecordOf(sum.FirstUnsealedSegment), LAMBDA unsealed :
    Let(FirstRecordOf(sum.FirstSealedSegment), LAMBDA sealed :
        IF sealed = Meta(0, 0) THEN unsealed
        ELSE IF unsealed = Meta(0, 0) THEN sealed
        ELSE IF sealed.ID < unsealed.ID THEN sealed
        ELSE unsealed))

\* Journal.Summary: the summary of the catalog, initialized if needed.
Summary(w) == summary(WithInit(w).js)

\* The filter with the lower bound Limit gives it one id too early.
LimitFilter_OneMore(filter, lim, latest, sum) ==
    IF lim > 0 /\ latest /\ sum.LastCommitted.ID >= lim
    THEN [filter EXCEPT !.MinRecordID = Max(@, sum.LastCommitted.ID - lim)]
    ELSE filter

\* Cursor.next on its first call: what Limit and Latest make of the filter.
LimitFilter(filter, lim, latest, sum) ==
    IF lim = 0 THEN filter
    ELSE IF latest
    THEN IF sum.LastCommitted.ID >= lim
         THEN [filter EXCEPT !.MinRecordID = Max(@, sum.LastCommitted.ID - lim + 1)]
         ELSE filter
    ELSE [filter EXCEPT !.MinRecordID = FirstRecord(sum).ID,
                        !.MaxRecordID = FirstRecord(sum).ID + lim - 1]

\* Journal.Read(Filter{Limit: lim, Latest: latest, ...}) drained.
\* Gives [w, out, err].
ReadLimit(w, filter, lim, latest) ==
    Let(WithInit(w), LAMBDA w0 : ReadKnown(w0, LimitFilter(filter, lim, latest, Summary(w0))))

\* ------------------------------------------------------------ seal and trim

\* The records of the source, re-framed for the sealed file: the timestamp delta
\* is taken against the running timestamp of the output.  Gives [bytes, err].
RECURSIVE sealRecords(_, _, _)
sealRecords(sr, ts, bytes) ==
    Let(srNext(sr), LAMBDA n :
        IF n.err = "EOF" THEN [bytes |-> bytes, err |-> ""]
        ELSE IF n.err # "" THEN [bytes |-> bytes, err |-> n.err]
        ELSE sealRecords(n, IF n.ts > ts THEN n.ts ELSE ts,
                         bytes \o appendSealedRecordHeader(Len(n.data), IF n.ts > ts THEN n.ts - ts ELSE 0)
                               \o n.data))

\* The catalog's next segment to seal, and whether Seal goes on with it.
SealNext(w0, next) ==
    [w |-> w0, next |-> next, go |-> ~IsZero(next) /\ CanSealStatus(next.status)]

\* Seal up to the try-lock.  Gives [w, next, go].
SealCheck(w) == Let(WithInit(w), LAMBDA w0 : SealNext(w0, nextToSeal(w0.js)))

\* Seal under the lock after its recheck c: opens the source, notes the temporary
\* segment in the catalog and creates its file.
SealOpenNext(c, o) ==
    IF ~c.go THEN [w |-> c.w, next |-> ZeroSeg, sr |-> Nil, go |-> FALSE, err |-> ""]
    ELSE IF o.err # "" THEN [w |-> c.w, next |-> ZeroSeg, sr |-> Nil, go |-> FALSE, err |-> o.err]
    ELSE [w |-> [c.w EXCEPT !.js.sealingTemp = WithStatus(c.next, "sealingTemp"),
                            !.dir = Put(@, WithStatus(c.next, "sealingTemp"), File(Nil, <<>>))],
          next |-> c.next, sr |-> o.sr, go |-> TRUE, err |-> ""]

\* Seal under the lock, from the recheck to the creation of the temporary file.
\* Gives [w, next, sr, go, err]; sr reads the source through its open handle.
SealOpen(w) ==
    Let(SealCheck(w), LAMBDA c : SealOpenNext(c, openSegment(c.w.dir, c.next)))

\* Seal once the records are copied: a read error removes the temporary file;
\* the rename fails when the temporary file is no longer in the directory.
SealRename(w, tempseg, finalseg, hdr, body) ==
    IF body.err # ""
    THEN [w |-> [w EXCEPT !.dir = Remove(@, tempseg)], seg |-> tempseg, err |-> body.err]
    ELSE IF ~Exists(w.dir, tempseg)
    THEN [w |-> w, seg |-> tempseg, err |-> "rename"]
    ELSE [w |-> [w EXCEPT !.dir = Put(Remove(@, tempseg), finalseg, File(hdr, body.bytes))],
          seg |-> finalseg, err |-> ""]

\* Seal from the header of the temporary file to its rename.  Gives [w, seg, err].
SealCopy(w, next, sr) ==
    SealRename(w, WithStatus(next, "sealingTemp"), WithStatus(next, "Sealed"),
               Header("S", next.segnum, next.ts, next.recnum, sr.h.lastTS, sr.h.lastRec),
               sealRecords(sr, next.ts, <<>>))

\* The end of Seal: the sealed segment enters the catalog on success, and the
\* deferred calls clear sealingTemp (and release the lock).
SealDone(w, seg, err) ==
    [(IF err = "" /\ IsSealed(seg.status) THEN updateStateWithSegmentAdded(w, seg) ELSE w)
        EXCEPT !.js.sealingTemp = ZeroSeg]

\* Seal after the temporary file is created.
SealFinish(s) == [w |-> SealDone(s.w, s.seg, s.err), seg |-> s.seg, err |-> s.err]

\* Seal under the lock.
SealLocked(o) ==
    IF ~o.go THEN [w |-> o.w, seg |-> ZeroSeg, err |-> o.err]
    ELSE SealFinish(SealCopy(o.w, o.next, o.sr))

\* Journal.Seal with nothing running beside it.  Gives [w, seg, err].
Seal(w) ==
    Let(SealCheck(w), LAMBDA c :
        IF ~c.go THEN [w |-> c.w, seg |-> ZeroSeg, err |-> ""]
        ELSE SealLocked(SealOpen(c.w)))

\* The catalog's next segment to trim, and whether Trim goes on with it.
TrimNext(w0, next) ==
    [w |-> w0, next |-> next, go |-> ~IsZero(next) /\ CanSealStatus(next.status)]

\* Trim's check, made once before the try-lock and once under the lock.
\* Gives [w, next, go].
TrimCheck(w) == Let(WithInit(w), LAMBDA w0 : TrimNext(w0, nextToTrim(w0.js)))

\* os.Remove of the segment to trim.  Gives [w, err].
TrimRemove(w, next) ==
    IF Exists(w.dir, next) THEN [w |-> [w EXCEPT !.dir = Remove(@, next)], err |-> ""]
    ELSE [w |-> w, err |-> "gone"]

\* The end of a successful Trim.
TrimDone(w, next) == updateStateWithSegmentGone(w, next)

\* Trim after os.Remove.
TrimRemoved(d, next) ==
    IF d.err # "" THEN [w |-> d.w, seg |-> next, err |-> d.err]
    ELSE [w |-> TrimDone(d.w, next), seg |-> next, err |-> ""]

\* Trim under the lock, r its recheck.
TrimLocked(r) ==
    IF ~r.go THEN [w |-> r.w, seg |-> ZeroSeg, err |-> ""]
    ELSE TrimRemoved(TrimRemove(r.w, r.next), r.next)

\* Journal.Trim with nothing running beside it.  Gives [w, seg, err].
Trim(w) ==
    Let(TrimCheck(w), LAMBDA c :
        IF ~c.go THEN [w |-> c.w, seg |-> ZeroSeg, err |-> ""]
        ELSE TrimLocked(TrimCheck(c.w)))

\* A first loop that stops after its first Seal.
SealLoop_Once(w, actions) ==
    Let(Seal(w), LAMBDA s :
        IF s.err # "" THEN [w |-> s.w, actions |-> actions, err |-> s.err]
        ELSE IF IsZero(s.seg) THEN [w |-> s.w, actions |-> actions, err |-> ""]
        ELSE [w |-> s.w, actions |-> actions + 1, err |-> ""])

\* The first loop of SealAndTrimAll.  Gives [w, actions, err].
RECURSIVE SealLoop(_, _)
SealLoop(w, actions) ==
    Let(Seal(w), LAMBDA s :
        IF s.err # "" THEN [w |-> s.w, actions |-> actions, err |-> s.err]
        ELSE IF IsZero(s.seg) THEN [w |-> s.w, actions |-> actions, err |-> ""]
        ELSE SealLoop(s.w, actions + 1))

\* A second loop that stops after its first Trim.
TrimLoop_Once(w, actions) ==
    Let(Trim(w), LAMBDA t :
        IF t.err # "" THEN [w |-> t.w, actions |-> actions, err |-> t.err]
        ELSE IF IsZero(t.seg) THEN [w |-> t.w, actions |-> actions, err |-> ""]
        ELSE [w |-> t.w, actions |-> actions + 1, err |-> ""])

\* The second loop of SealAndTrimAll.  Gives [w, actions, err].
RECURSIVE TrimLoop(_, _)
TrimLoop(w, actions) ==
    Let(Trim(w), LAMBDA t :
        IF t.err # "" THEN [w |-> t.w, actions |-> actions, err |-> t.err]
        ELSE IF IsZero(t.seg) THEN [w |-> t.w, actions |-> actions, err |-> ""]
        ELSE TrimLoop(t.w, actions + 1))

\* Journal.SealAndTrimAll with an uncancelled context.  Gives [w, actions, err].
SealAndTrimAll(w) ==
    Let(SealLoop(w, 0), LAMBDA s :
        IF s.err # "" THEN s ELSE TrimLoop(s.w, s.actions))

\* -------------------------------------------------------------------- state

VARIABLES
    dir,        \* the directory: segment (status, segnum, ts, recnum) -> file
    js,         \* the catalog (journalState)
    jw,         \* the writer (journalWriter)
    panicked,   \* the process has panicked
    sl,         \* the background thread: where it is in Seal or Trim, holding
                \* sealLock, or in a cursor's next()
    now,        \* the injected clock
    written,    \* history: the records WriteRecord has accepted, in order
    crashes,    \* history: how many times the process was killed
    ret,        \* what the last operation returned
    wl          \* the write lock's holder and the two threads that call the writer

vars == <<dir, js, jw, panicked, sl, now, written, crashes, ret, wl>>

TheWorld == World(dir, js, jw, panicked)

\* The variables of the world take the value w.
Becomes(w) ==
    /\ dir' = w.dir
    /\ js' = w.js
    /\ jw' = w.jw
    /\ panicked' = w.panicked

Idle == [pc |-> "idle", next |-> ZeroSeg, sr |-> Nil, seg |-> ZeroSeg, err |-> ""]

\* No thread is inside an operation of the writer and writeLock is free; s is
\* where a second caller of Seal and Trim is: "idle", or past the try-lock in
\* "seal" or in "trim"; p is "preparing" while the goroutine of StartWriting runs
\* ("open" between lastSegment and the opening of the segment), last the segment
\* it is about to open, failed prepareToWrite_locked's variable, tried the
\* segments this preparation has opened; lost holds the files that vanished;
\* fault is what fails in the directory at present.
NoThreads ==
    [holder |-> "none", a |-> [op |-> "idle", ts |-> 0, data |-> <<>>], b |-> "idle",
     s |-> "idle", p |-> "idle", last |-> ZeroSeg, failed |-> ZeroSeg, tried |-> <<>>,
     lost |-> {}, vanishes |-> 0, fault |-> ""]

\* The result of an operation.  again: a SealAndTrimAll that follows directly
\* a SealAndTrimAll which succeeded.
Ret(op, err, out, seg, actions) ==
    [op |-> op, err |-> err, out |-> out, seg |-> seg, actions |-> actions,
     again |-> op = "SealAndTrimAll" /\ ret.op = "SealAndTrimAll" /\ ret.err = ""]

EmptyDir == [s \in {} |-> Nil]

Init ==
    /\ dir = EmptyDir
    /\ js = NewState
    /\ jw = NewWriter
    /\ panicked = FALSE
    /\ sl = Idle
    /\ now = 1
    /\ written = <<>>
    /\ crashes = 0
    /\ wl = NoThreads
    /\ ret = [op |-> "New", err |-> "", out |-> <<>>, seg |-> ZeroSeg, actions |-> 0, again |-> FALSE]

\* ---------------------------------------------------------- writer actions

\* The clock advances.
Tick ==
    /\ now < MaxClock
    /\ now' = now + 1
    /\ ret' = Ret("Tick", "", <<>>, ZeroSeg, 0)
    /\ UNCHANGED <<wl, dir, js, jw, panicked, sl, written, crashes>>

\* WriteRecord(ts, data): ts = 0 asks for the clock's time.  ret.out keeps the
\* data the call was made with.
DoWriteRecord ==
    \E ts \in 0..MaxClock, data \in Payloads :
        LET r == WriteRecord(TheWorld, ts, data, now)
        IN /\ ~panicked
           /\ Len(written) < MaxRecs
           /\ Becomes(r.w)
           /\ written' = IF r.wrote
                         THEN Append(written, [ID |-> Len(written) + 1,
                                               Timestamp |-> IF ts = 0 THEN now ELSE ts,
                                               Data |-> data])
                         ELSE written
           /\ ret' = Ret("WriteRecord", r.err, <<data>>, ZeroSeg, 0)
           /\ UNCHANGED <<wl, sl, now, crashes>>

DoCommit ==
    /\ ~panicked
    /\ Becomes(Commit(TheWorld))
    /\ ret' = Ret("Commit", "", <<>>, ZeroSeg, 0)
    /\ UNCHANGED <<wl, sl, now, written, crashes>>

\* Journal.FinishWriting: closeAndContinueLater.
DoFinishWriting ==
    LET r == FinishWriting(TheWorld, closeAndContinueLater)
    IN /\ ~panicked
       /\ Becomes(r.w)
       /\ ret' = Ret("FinishWriting", r.err, <<>>, ZeroSeg, 0)
       /\ UNCHANGED <<wl, sl, now, written, crashes>>

DoStartWriting ==
    /\ ~panicked
    /\ Becomes(StartWriting(TheWorld))
    /\ ret' = Ret("StartWriting", "", <<>>, ZeroSeg, 0)
    /\ UNCHANGED <<wl, sl, now, written, crashes>>

DoRotate ==
    LET r == Rotate(TheWorld)
    IN /\ ~panicked
       /\ Becomes(r.w)
       /\ ret' = Ret("Rotate", r.err, <<>>, ZeroSeg, 0)
       /\ UNCHANGED <<wl, sl, now, written, crashes>>

\* Journal.Read(Filter{}), drained.
DoRead ==
    LET r == Read(TheWorld, NoFilter)
    IN /\ ~panicked
       /\ Becomes(r.w)
       /\ ret' = Ret("Read", r.err, r.out, ZeroSeg, 0)
       /\ UNCHANGED <<wl, sl, now, written, crashes>>

\* The journal is opened again by a new process after the writer was closed:
\* a new catalog and a new writer over the same directory.
Reopen ==
    /\ jw.segWriter = Nil
    /\ sl.pc = "idle"
    /\ js' = NewState
    /\ jw' = NewWriter
    /\ panicked' = FALSE
    /\ ret' = Ret("Reopen", "", <<>>, ZeroSeg, 0)
    /\ UNCHANGED <<wl, dir, sl, now, written, crashes>>

\* ------------------------------------------- seal and trim, one call at a time

DoSeal ==
    LET r == Seal(TheWorld)
    IN /\ ~panicked
       /\ sl.pc = "idle"
       /\ Becomes(r.w)
       /\ ret' = Ret("Seal", r.err, <<>>, r.seg, 0)
       /\ UNCHANGED <<wl, sl, now, written, crashes>>

DoTrim ==
    LET r == Trim(TheWorld)
    IN /\ ~panicked
       /\ sl.pc = "idle"
       /\ Becomes(r.w)
       /\ ret' = Ret("Trim", r.err, <<>>, r.seg, 0)
       /\ UNCHANGED <<wl, sl, now, written, crashes>>

DoSealAndTrimAll ==
    LET r == SealAndTrimAll(TheWorld)
    IN /\ ~panicked
       /\ sl.pc = "idle"
       /\ Becomes(r.w)
       /\ ret' = Ret("SealAndTrimAll", r.err, <<>>, ZeroSeg, r.actions)
       /\ UNCHANGED <<wl, sl, now, written, crashes>>

\* The writer's operations, the cursor and the reopening of a closed journal.
Next ==
    \/ Tick
    \/ DoWriteRecord
    \/ DoCommit
    \/ DoFinishWriting
    \/ DoStartWriting
    \/ DoRotate
    \/ DoRead
    \/ Reopen

Spec == Init /\ [][Next]_vars

\* Writing, sealing and trimming, one call at a time.
NextSeal ==
    \/ DoWriteRecord
    \/ DoCommit
    \/ DoFinishWriting
    \/ DoRotate
    \/ DoRead
    \/ Reopen
    \/ DoSeal
    \/ DoTrim
    \/ DoSealAndTrimAll

SpecSeal == Init /\ [][NextSeal]_vars

\* ------------------------------------------------------------------ record ids

\* One file for each segment number on disk: the unsealed one if there is one.
OneFilePerSegment(d) ==
    {seg \in DOMAIN d :
        /\ seg.status # "sealingTemp"
        /\ IsSealed(seg.status) => ~\E u \in DOMAIN d :
                                       u.segnum = seg.segnum /\ u.status \in {"Draft", "Finalized"}}

\* The records on disk in segment order, committed or not, as the reader
\* decodes them.
RecordsOnDisk(d) == readSegments(d, SortSegments(OneFilePerSegment(d)), NoFilter, <<>>).out

\* C1: the k-th record WriteRecord accepted is on disk with id k: the ids on
\* disk are 1..N, without a gap or a duplicate, across rotations by size, Rotate,
\* FinishWriting/StartWriting and reopening.
C1_IdsAreSerial ==
    /\ Len(RecordsOnDisk(dir)) = Len(written)
    /\ \A k \in 1..Len(written) :
           /\ RecordsOnDisk(dir)[k].ID = k
           /\ RecordsOnDisk(dir)[k].Data = written[k].Data

\* Three records in three segments, read back after a reopening.
C1_Witness ==
    /\ Len(written) = MaxRecs
    /\ Cardinality(DOMAIN dir) = 3
    /\ ret.op = "Reopen"

\* ------------------------------------------------------- a damaged Draft file

MaxCrashes == 1

\* What may follow the cut of a damaged file: nothing, the first byte of a
\* commit, a whole commit with a wrong checksum, a byte that starts a record
\* header and does not end it.
Garbage == {<<>>, <<3>>, <<3, 0, 0, 0, 0, 0, 0, 0>>, <<255>>}

\* The bytes a damaged file may hold: cut at any offset, garbage after the cut.
Damaged(bytes) == {SubSeq(bytes, 1, k) \o g : k \in 0..Len(bytes), g \in Garbage} \ {bytes}

\* The process is killed and the Draft it was writing is left damaged; a new
\* process opens the journal: a new catalog and a new writer.
Crash ==
    /\ crashes < MaxCrashes
    /\ sl.pc = "idle"
    /\ \E seg \in DOMAIN dir :
           /\ IsDraft(seg.status)
           /\ \E b \in Damaged(dir[seg].bytes) : dir' = Put(dir, seg, File(dir[seg].hdr, b))
    /\ js' = NewState
    /\ jw' = NewWriter
    /\ panicked' = FALSE
    /\ crashes' = crashes + 1
    /\ ret' = Ret("Crash", "", <<>>, ZeroSeg, 0)
    /\ UNCHANGED <<wl, sl, now, written>>

\* Writing, with a kill of the process that damages the Draft.
NextCrash ==
    \/ DoWriteRecord
    \/ DoCommit
    \/ DoFinishWriting
    \/ DoStartWriting
    \/ DoRotate
    \/ Crash

SpecCrash == Init /\ [][NextCrash]_vars

\* The Draft seg is the file StartWriting continues, sr is what the reader
\* finds in it: a valid commit, and bytes after the last valid commit.
DamagedDraft(seg, sr) ==
    /\ IsDraft(seg.status)
    /\ \A s \in DOMAIN dir : s.segnum <= seg.segnum
    /\ ~jw.writable /\ jw.writeErr = "" /\ jw.segWriter = Nil
    /\ sr.committedRec > 0
    /\ FileSize(dir[seg]) > sr.committedSize

\* The step left seg's file cut at the end of the last valid commit, with
\* last_committed and the writer's next id set from that commit.
Recovered(seg, sr) ==
    /\ seg \in DOMAIN dir'
    /\ dir'[seg] = File(dir[seg].hdr, SubSeq(dir[seg].bytes, 1, sr.committedSize - segmentHeaderSize))
    /\ js'.lastCommitted.ID = sr.committedRec
    /\ jw'.segWriter # Nil
    /\ jw'.segWriter.nextRec = sr.committedRec + 1

\* C2: StartWriting on a Draft that holds a valid commit and damaged bytes
\* after it truncates the file to the end of the last valid commit, changes no
\* byte before it, sets last_committed to the last record that commit covers,
\* and the next record gets that id + 1.
C2_StartWritingTruncates ==
    [][\A seg \in DOMAIN dir :
           (ret'.op = "StartWriting" /\ DamagedDraft(seg, verifySegment(dir[seg], seg)))
               => Recovered(seg, verifySegment(dir[seg], seg))]_vars

\* --------------------------------------------------- what a cursor may yield

\* The largest of a set of numbers, 0 for the empty set.
MaxOf(S) == IF S = {} THEN 0 ELSE CHOOSE m \in S : \A x \in S : x <= m

\* The id of the last record on disk that a commit marker covers (in a Sealed
\* file every record counts as committed).
LastCommittedOnDisk(d) ==
    MaxOf({verifySegment(d[seg], seg).committedRec : seg \in {s \in DOMAIN d : s.status # "sealingTemp"}})

\* C3: a Read yields no record that no commit marker covers: while the writer
\* has appended records to the Draft and not committed them, the cursor yields
\* the records up to the last commit only.
C3_ReadYieldsCommittedOnly ==
    ret.op = "Read" => \A k \in 1..Len(ret.out) : ret.out[k].ID <= LastCommittedOnDisk(dir)

\* ------------------------------- seal and trim, step by step, beside the writer

\* The thread of Seal and Trim at pc.
At(pc, next, sr, seg, err) == [pc |-> pc, next |-> next, sr |-> sr, seg |-> seg, err |-> err]

\* sealLock is held by whichever caller of Seal or Trim is past the try-lock.
sealLockHeld == sl.pc # "idle" \/ wl.s # "idle"

\* A try-lock that takes the lock whether it is free or not.
TryLock_Blind == TRUE

\* sealLock.TryLock: takes the lock when it is free, and never waits.
TryLock == ~sealLockHeld

\* Seal: nextToSeal before the lock, and TryLock.
SealBegin ==
    LET c == SealCheck(TheWorld)
    IN /\ ~panicked
       /\ sl.pc = "idle"
       /\ Becomes(c.w)
       /\ sl' = IF c.go /\ TryLock THEN At("sealLocked", ZeroSeg, Nil, ZeroSeg, "") ELSE Idle
       /\ ret' = IF c.go /\ TryLock THEN ret ELSE Ret("Seal", "", <<>>, ZeroSeg, 0)
       /\ UNCHANGED <<wl, now, written, crashes>>

\* Seal: the recheck under the lock, the source opened, the temporary file created.
SealOpenStep ==
    LET o == SealOpen(TheWorld)
    IN /\ ~panicked
       /\ sl.pc = "sealLocked"
       /\ Becomes(o.w)
       /\ sl' = IF o.go THEN At("sealCopy", o.next, o.sr, ZeroSeg, "") ELSE Idle
       /\ ret' = IF o.go THEN ret ELSE Ret("Seal", o.err, <<>>, ZeroSeg, 0)
       /\ UNCHANGED <<wl, now, written, crashes>>

\* Seal: the records copied and the temporary file renamed.
SealCopyStep ==
    LET s == SealCopy(TheWorld, sl.next, sl.sr)
    IN /\ ~panicked
       /\ sl.pc = "sealCopy"
       /\ Becomes(s.w)
       /\ sl' = At("sealDone", sl.next, Nil, s.seg, s.err)
       /\ UNCHANGED <<wl, now, written, crashes, ret>>

\* Seal: the catalog updated, the lock released.
SealDoneStep ==
    /\ ~panicked
    /\ sl.pc = "sealDone"
    /\ Becomes(SealDone(TheWorld, sl.seg, sl.err))
    /\ sl' = Idle
    /\ ret' = Ret("Seal", sl.err, <<>>, sl.seg, 0)
    /\ UNCHANGED <<wl, now, written, crashes>>

\* Trim: nextToTrim before the lock, and TryLock.
TrimBegin ==
    LET c == TrimCheck(TheWorld)
    IN /\ ~panicked
       /\ sl.pc = "idle"
       /\ Becomes(c.w)
       /\ sl' = IF c.go /\ TryLock THEN At("trimLocked", ZeroSeg, Nil, ZeroSeg, "") ELSE Idle
       /\ ret' = IF c.go /\ TryLock THEN ret ELSE Ret("Trim", "", <<>>, ZeroSeg, 0)
       /\ UNCHANGED <<wl, now, written, crashes>>

\* Trim: the recheck under the lock.
TrimRecheck ==
    LET c == TrimCheck(TheWorld)
    IN /\ ~panicked
       /\ sl.pc = "trimLocked"
       /\ Becomes(c.w)
       /\ sl' = IF c.go THEN At("trimRemove", c.next, Nil, ZeroSeg, "") ELSE Idle
       /\ ret' = IF c.go THEN ret ELSE Ret("Trim", "", <<>>, ZeroSeg, 0)
       /\ UNCHANGED <<wl, now, written, crashes>>

\* Trim: os.Remove of the file.
TrimRemoveStep ==
    LET d == TrimRemove(TheWorld, sl.next)
    IN /\ ~panicked
       /\ sl.pc = "trimRemove"
       /\ Becomes(d.w)
       /\ sl' = IF d.err = "" THEN At("trimDone", sl.next, Nil, ZeroSeg, "") ELSE Idle
       /\ ret' = IF d.err = "" THEN ret ELSE Ret("Trim", d.err, <<>>, sl.next, 0)
       /\ UNCHANGED <<wl, now, written, crashes>>

\* Trim: the catalog updated, the lock released.
TrimDoneStep ==
    /\ ~panicked
    /\ sl.pc = "trimDone"
    /\ Becomes(TrimDone(TheWorld, sl.next))
    /\ sl' = Idle
    /\ ret' = Ret("Trim", "", <<>>, sl.next, 0)
    /\ UNCHANGED <<wl, now, written, crashes>>

\* The process is killed, with no damage to the files: what was written stays
\* written, committed or not.  A new process opens the journal.
Kill ==
    /\ crashes < MaxCrashes
    /\ js' = NewState
    /\ jw' = NewWriter
    /\ panicked' = FALSE
    /\ sl' = Idle
    /\ crashes' = crashes + 1
    /\ ret' = Ret("Kill", "", <<>>, ZeroSeg, 0)
    /\ UNCHANGED <<wl, dir, now, written>>

\* The writer beside the thread of Seal and Trim; segments rotate by size.
NextConc ==
    \/ DoWriteRecord
    \/ DoFinishWriting
    \/ DoStartWriting
    \/ Kill
    \/ SealBegin
    \/ SealOpenStep
    \/ SealCopyStep
    \/ SealDoneStep
    \/ TrimBegin
    \/ TrimRecheck
    \/ TrimRemoveStep
    \/ TrimDoneStep

SpecConc == Init /\ [][NextConc]_vars

\* C4: Trim deletes a file only if it is Finalized and a Sealed file with the
\* same segnum is in the directory at the moment of the deletion, under every
\* interleaving of Trim's steps with Seal, WriteRecord and the writer's
\* recovery (the catalog reset and initialized again).
C4_TrimOnlyAfterSeal ==
    [][(sl.pc = "trimRemove" /\ sl'.pc = "trimDone")
           => \A seg \in (DOMAIN dir) \ (DOMAIN dir') :
                  /\ seg.status = "Finalized"
                  /\ \E s \in DOMAIN dir : s.status = "Sealed" /\ s.segnum = seg.segnum]_vars

\* ------------------------------------------------ what was written is read back

\* C5: after WriteRecord(ts_i, data_i), Commit, FinishWriting and the reopening
\* of the journal, Read(Filter{}) returns the written records in write order
\* with the same data, and the timestamps of successive returned records never
\* decrease, across the segment boundaries too.
C5_ReadBackInOrder ==
    [][(ret.op = "Reopen" /\ ret'.op = "Read")
           => /\ Len(ret'.out) = Len(written)
              /\ \A k \in 1..Len(ret'.out) : ret'.out[k].Data = written[k].Data
              /\ \A k \in 1..(Len(ret'.out) - 1) :
                     ret'.out[k].Timestamp <= ret'.out[k + 1].Timestamp]_vars

\* The last record of seg's file as the reader decodes it: rec is its number
\* (first_recnum - 1 for a file without records), ts its timestamp.
LastRecordOf(d, seg) == verifySegment(d[seg], seg)

\* C6: of two segments A and B with A.segnum < B.segnum, A's last record
\* number is below B's first and A's last timestamp is at most B's first
\* timestamp, after any writes with timestamps of the caller, rotations and
\* reopenings.
C6_SegmentsAreOrdered ==
    \A A \in DOMAIN dir, B \in DOMAIN dir :
        A.segnum < B.segnum
            => /\ LastRecordOf(dir, A).rec < B.recnum
               /\ LastRecordOf(dir, A).ts <= B.ts

\* ------------------------------------------------------------- what Seal seals

\* The files of status st in the directory d.
FilesOf(d, st) == {s \in DOMAIN d : s.status = st}

\* The Finalized files whose segnum exceeds the largest Sealed segnum in d.
Sealable(d) == {f \in FilesOf(d, "Finalized") : f.segnum > MaxOf({s.segnum : s \in FilesOf(d, "Sealed")})}

\* The step is a Seal that returned a sealed segment.
Sealed1 == ret'.op = "Seal" /\ ret'.err = "" /\ ~IsZero(ret'.seg)

\* C7: Seal seals only a Finalized segment, and always the one of smallest
\* segnum among those whose segnum exceeds the largest Sealed segnum, so that
\* segments are sealed in ascending order and none is skipped; with no
\* Finalized segment Seal returns the zero segment and changes neither the
\* directory nor the catalog; after a successful Seal the Sealed file has the
\* segnum, first timestamp and first record number of its source, and the
\* Finalized source is still there, unchanged.
C7_SealsNextFinalized ==
    [][/\ Sealed1 => /\ WithStatus(ret'.seg, "Finalized") \in Sealable(dir)
                     /\ \A f \in Sealable(dir) : ret'.seg.segnum <= f.segnum
       /\ (ret'.op = "Seal" /\ FilesOf(dir, "Finalized") = {})
              => /\ IsZero(ret'.seg)
                 /\ dir' = dir
                 /\ js.initialized => js' = js
       /\ Sealed1 => /\ ret'.seg.status = "Sealed"
                     /\ ret'.seg \in DOMAIN dir'
                     /\ WithStatus(ret'.seg, "Finalized") \in DOMAIN dir
                     /\ WithStatus(ret'.seg, "Finalized") \in DOMAIN dir'
                     /\ dir'[WithStatus(ret'.seg, "Finalized")] = dir[WithStatus(ret'.seg, "Finalized")]
                     /\ dir'[ret'.seg].hdr.segnum = dir[WithStatus(ret'.seg, "Finalized")].hdr.segnum
                     /\ dir'[ret'.seg].hdr.firstTS = dir[WithStatus(ret'.seg, "Finalized")].hdr.firstTS
                     /\ dir'[ret'.seg].hdr.firstRec = dir[WithStatus(ret'.seg, "Finalized")].hdr.firstRec]_vars

\* ------------------------------------------- reading while sealing and trimming

\* What Read(Filter{}) yields, drained, in the world (d, j, w, p): the records
\* and the error the cursor ends with.
ReadAll(d, j, w, p) ==
    Let(Read(World(d, j, w, p), NoFilter), LAMBDA r : [out |-> r.out, err |-> r.err])

C9_SecondCallDoesNothing ==
    [][(ret.op = "SealAndTrimAll" /\ ret.err = "" /\ ret'.op = "SealAndTrimAll")
           => /\ ret'.actions = 0
              /\ ret'.err = ""
              /\ dir' = dir
              /\ js' = js]_vars

\* The second of two calls has returned; the first had sealed and trimmed two
\* segments beside a Draft.
C9_Witness ==
    /\ ret.op = "SealAndTrimAll"
    /\ ret.again
    /\ Cardinality(FilesOf(dir, "Sealed")) = 2
    /\ Cardinality(FilesOf(dir, "Draft")) = 1
    /\ FilesOf(dir, "Finalized") = {}

\* C10: with seal keys, an uncancelled context, nothing running beside it and
\* no I/O failure, SealAndTrimAll returns (without an error), and then the
\* directory holds no Finalized and no SealingTemp file: every segment that was
\* Finalized is there as a Sealed file of the same segnum only, and the Draft,
\* if there is one, is untouched.
C10_AllSealedAndTrimmed ==
    [][ret'.op = "SealAndTrimAll"
           => /\ ret'.err = ""
              /\ FilesOf(dir', "Finalized") = {}
              /\ FilesOf(dir', "sealingTemp") = {}
              /\ \A f \in FilesOf(dir, "Finalized") : WithStatus(f, "Sealed") \in DOMAIN dir'
              /\ \A d \in FilesOf(dir, "Draft") : d \in DOMAIN dir' /\ dir'[d] = dir[d]]_vars

\* A call that sealed two segments and trimmed them, beside a Draft.
C10_Witness ==
    /\ ret.op = "SealAndTrimAll"
    /\ ret.err = ""
    /\ ret.actions = 4
    /\ Cardinality(FilesOf(dir, "Sealed")) = 2
    /\ Cardinality(FilesOf(dir, "Draft")) = 1

\* ------------------------------------------------------------------- rotation

\* seqn with every old replaced by new, the other entries where they were.
ReplacedIn(seqn, old, new) == [k \in DOMAIN seqn |-> IF seqn[k] = old THEN new ELSE seqn[k]]

\* The Draft s of the directory d is in d2 the Finalized file of the same
\* segment number, first timestamp and first record number, with the same
\* records, the number of the last one in the header's last_recnum.
FinalizedFrom(d, s, d2) ==
    /\ WithStatus(s, "Finalized") \in DOMAIN d2
    /\ d2[WithStatus(s, "Finalized")].bytes = d[s].bytes
          \/ /\ Len(d2[WithStatus(s, "Finalized")].bytes) = Len(d[s].bytes) + commitSize
             /\ SubSeq(d2[WithStatus(s, "Finalized")].bytes, 1, Len(d[s].bytes)) = d[s].bytes
    /\ d2[WithStatus(s, "Finalized")].hdr.magic = "F"
    /\ d2[WithStatus(s, "Finalized")].hdr.segnum = s.segnum
    /\ d2[WithStatus(s, "Finalized")].hdr.firstTS = s.ts
    /\ d2[WithStatus(s, "Finalized")].hdr.firstRec = s.recnum
    /\ d2[WithStatus(s, "Finalized")].hdr.lastRec = LastRecordOf(d, s).rec
    /\ LastRecordOf(d2, WithStatus(s, "Finalized")).rec = LastRecordOf(d, s).rec

\* What Rotate has done when it returns nil: d, unsealed the directory and the
\* catalog before the call, d2, unsealed2 after it.
Rotated(d, unsealed, d2, unsealed2) ==
    /\ FilesOf(d2, "Draft") = {}
    /\ \A k \in DOMAIN unsealed2 : ~IsDraft(unsealed2[k].status)
    /\ \A s \in FilesOf(d, "Draft") :
           /\ FinalizedFrom(d, s, d2)
           /\ DOMAIN d2 = ((DOMAIN d) \ {s}) \cup {WithStatus(s, "Finalized")}
           /\ \A o \in (DOMAIN d) \ {s} : d2[o] = d[o]
           /\ unsealed2 = ReplacedIn(unsealed, s, WithStatus(s, "Finalized"))
    /\ FilesOf(d, "Draft") = {} => d2 = d /\ unsealed2 = unsealed

\* C11: whenever Rotate returns nil the journal has no Draft: the former Draft,
\* open or left on disk by FinishWriting, is the Finalized file of the same
\* segment number, first timestamp and first record number, its header's
\* last_recnum is the id of its last record, and its catalog entry is replaced
\* in place; a Rotate without a Draft changes no file and no catalog entry.
C11_RotateFinalizesDraft ==
    [][(ret'.op = "Rotate" /\ ret'.err = "")
           => Rotated(dir, WithInit(TheWorld).js.unsealed, dir', js'.unsealed)]_vars

\* Rotate has finalized a second segment, after the first one, and the two hold
\* all the records written.
C11_Witness ==
    /\ ret.op = "Rotate"
    /\ ret.err = ""
    /\ Len(js.unsealed) = 2
    /\ \A k \in 1..2 : js.unsealed[k].status = "Finalized"
    /\ js.unsealed[2] \in DOMAIN dir
    /\ dir[js.unsealed[2]].hdr.lastRec = Len(written)
    /\ Len(written) >= 2

\* ------------------------------------------------- records and segment sizes

\* The ids and payloads of the records in seg's file, as the cursor reads them.
IdsAndData(d, seg) ==
    Let(readSegments(d, <<seg>>, NoFilter, <<>>).out, LAMBDA recs :
        [k \in DOMAIN recs |-> [ID |-> recs[k].ID, Data |-> recs[k].Data]])

\* The record went to the end of the Draft s: the file's bytes are the old
\* ones and after them the whole record, no other file is touched.
AppendedTo(d, s, d2, id, data) ==
    /\ DOMAIN d2 = DOMAIN d
    /\ \A o \in (DOMAIN d) \ {s} : d2[o] = d[o]
    /\ SubSeq(d2[s].bytes, 1, Len(d[s].bytes)) = d[s].bytes
    /\ IdsAndData(d2, s) = Append(IdsAndData(d, s), [ID |-> id, Data |-> data])

\* The Draft s was committed and finalized with the records it had, and the
\* record is the only one of a new Draft with the next segment number.
RotatedBefore(d, s, d2, id, data) ==
    /\ WithStatus(s, "Finalized") \in DOMAIN d2
    /\ IdsAndData(d2, WithStatus(s, "Finalized")) = IdsAndData(d, s)
    /\ LastCommittedOnDisk(d2) >= id - 1
    /\ \E n \in FilesOf(d2, "Draft") :
           /\ FilesOf(d2, "Draft") = {n}
           /\ n.segnum = s.segnum + 1
           /\ n.recnum = id
           /\ d2[n].hdr.firstRec = id
           /\ IdsAndData(d2, n) = <<[ID |-> id, Data |-> data]>>

\* What WriteRecord does with the record (id, data) it accepts, for the Draft s
\* of the directory d: d2 is the directory after the call.
WrittenWhole(d, s, d2, id, data) ==
    IF FileSize(d[s]) + Len(data) > MaxFileSize
    THEN RotatedBefore(d, s, d2, id, data)
    ELSE AppendedTo(d, s, d2, id, data)

\* C12: WriteRecord never splits a record over two segments: when the Draft's
\* size plus the length of the data exceeds max_file_size the Draft is
\* committed and finalized and the record is the first of a new Draft with the
\* next segment number and first_recnum equal to the record's id; otherwise the
\* record is appended to the Draft. The same for a Draft that FinishWriting
\* closed and the write resumes.
C12_RecordsAreNotSplit ==
    [][(ret'.op = "WriteRecord" /\ Len(written') = Len(written) + 1)
           => \A s \in FilesOf(dir, "Draft") :
                  WrittenWhole(dir, s, dir', Len(written'), written'[Len(written')].Data)]_vars

\* A write has resumed a closed Draft that the record did not fit in: the
\* first segment is Finalized, full enough to refuse the record, and the record
\* is alone in the second one.
C12_Witness ==
    /\ ret.op = "WriteRecord"
    /\ Len(written) >= 2
    /\ \E f \in FilesOf(dir, "Finalized"), n \in FilesOf(dir, "Draft") :
           /\ f.segnum = 1
           /\ n.segnum = 2
           /\ n.recnum = Len(written)
           /\ FileSize(dir[f]) <= MaxFileSize
           /\ FileSize(dir[f]) + Len(written[Len(written)].Data) > MaxFileSize
           /\ IdsAndData(dir, n) = <<[ID |-> Len(written), Data |-> written[Len(written)].Data]>>

\* ------------------------------------------- opening after a closed segment

\* Writing, rotating, sealing and trimming, and reopening for writing.
NextOpen ==
    \/ DoWriteRecord
    \/ DoRotate
    \/ DoStartWriting
    \/ Reopen
    \/ DoSeal
    \/ DoTrim

SpecOpen == Init /\ [][NextOpen]_vars

\* The writer is not prepared and the last segment of the journal, as the
\* catalog built from the directory gives it, is the Finalized or Sealed l.
ClosedLast(l) ==
    /\ ~jw.writable /\ jw.writeErr = "" /\ jw.segWriter = Nil
    /\ l = last(WithInit(TheWorld).js)
    /\ ~IsZero(l)
    /\ ~IsDraft(l.status)

\* The state StartWriting left: prepared after the segment l, nothing written.
PreparedAfter(l) ==
    /\ ret.op = "StartWriting"
    /\ jw.writable /\ jw.segWriter = Nil
    /\ js.initialized
    /\ l = last(js)
    /\ ~IsZero(l)
    /\ ~IsDraft(l.status)

\* The step created the Draft that follows l, with the record as its first.
StartsAfter(l, lastRec) ==
    \E n \in FilesOf(dir', "Draft") :
        /\ n \notin DOMAIN dir
        /\ n.segnum = l.segnum + 1
        /\ n.recnum = lastRec + 1
        /\ dir'[n].hdr.segnum = l.segnum + 1
        /\ dir'[n].hdr.firstRec = lastRec + 1
        /\ \A o \in DOMAIN dir : o \in DOMAIN dir' /\ dir'[o] = dir[o]

\* C13: when the journal is opened for writing and its last segment is
\* Finalized or Sealed, the preparation modifies no file and
\* Summary.LastCommitted.ID is that segment's header last_recnum; the next
\* WriteRecord creates the segment last.segnum + 1 whose first_recnum is
\* last_recnum + 1.
C13_OpensAfterClosedSegment ==
    [][\A l \in DOMAIN dir :
           /\ (ret'.op = "StartWriting" /\ ClosedLast(l))
                  => /\ dir' = dir
                     /\ summary(js').LastCommitted.ID = dir[l].hdr.lastRec
           /\ (ret'.op = "WriteRecord" /\ Len(written') = Len(written) + 1 /\ PreparedAfter(l))
                  => StartsAfter(l, dir[l].hdr.lastRec)]_vars

\* ------------------------------------------------- a Draft without a commit

\* The writer is not prepared and the last segment is the Draft l, whose file
\* holds bytes after its header and, as the reader finds, no valid commit.
CommitlessLast(l) ==
    /\ ~jw.writable /\ jw.writeErr = "" /\ jw.segWriter = Nil
    /\ l = last(WithInit(TheWorld).js)
    /\ IsDraft(l.status)
    /\ dir[l].bytes # <<>>
    /\ verifySegment(dir[l], l).committedRec = 0

\* The segment number and the first record number of the segment that follows
\* the last one of the catalog (1 and 1 when there is none), d the directory.
NextAfterLast(d, state) ==
    IF IsZero(last(state)) THEN [segnum |-> 1, recnum |-> 1]
    ELSE [segnum |-> last(state).segnum + 1, recnum |-> d[last(state)].hdr.lastRec + 1]

\* The step deleted l's file, took l out of the catalog and prepared the
\* writer after the segment that is the last one now, l's number free again.
DeletedAndRetried(l) ==
    /\ l \notin DOMAIN dir'
    /\ \A k \in DOMAIN js'.unsealed : js'.unsealed[k] # l
    /\ jw'.writable /\ jw'.segWriter = Nil
    /\ IsZero(last(js')) \/ ~IsDraft(last(js').status)
    /\ NextAfterLast(dir', js').segnum = l.segnum
    /\ jw'.nextSegNum = l.segnum
    /\ jw'.nextRecNum = NextAfterLast(dir', js').recnum

\* C14: when the last segment is a Draft without any valid commit (here: one
\* that holds written bytes, none of them a valid commit), StartWriting
\* deletes its file and removes it from the catalog, the preparation is retried
\* with the new last segment, and the next WriteRecord creates a Draft that
\* reuses the deleted segment number, with first_recnum the previous segment's
\* last_recnum + 1 (segment 1, record 1 when no segment is left).
C14_CommitlessDraftIsDeleted ==
    [][/\ \A l \in DOMAIN dir :
              (ret'.op = "StartWriting" /\ CommitlessLast(l)) => DeletedAndRetried(l)
       /\ (/\ ret.op = "StartWriting" /\ jw.writable /\ jw.segWriter = Nil
           /\ ret'.op = "WriteRecord" /\ Len(written') = Len(written) + 1)
              => \E n \in FilesOf(dir', "Draft") :
                     /\ n \notin DOMAIN dir
                     /\ n.segnum = NextAfterLast(dir, js).segnum
                     /\ n.recnum = NextAfterLast(dir, js).recnum]_vars

\* ------------------------------------------------------ reading a range of ids

\* Every record on disk is covered by a commit: the writer has nothing
\* uncommitted in its segment.
AllCommitted == ~panicked /\ (jw.segWriter = Nil \/ ~jw.segWriter.uncommitted)

\* The records with ids a..b of those written, in order.
WrittenBetween(a, b) ==
    [k \in 1..(Max(0, (IF b < Len(written) THEN b ELSE Len(written)) - a + 1)) |->
        [ID |-> a + k - 1, Data |-> written[a + k - 1].Data]]

\* The ids and payloads of the records recs.
IdsAndDataOf(recs) == [k \in DOMAIN recs |-> [ID |-> recs[k].ID, Data |-> recs[k].Data]]

\* The segment numbers of the segments segs.
SegNums(segs) == {segs[k].segnum : k \in DOMAIN segs}

\* The segment seg of the directory d holds a record with an id in a..b.
HoldsBetween(d, seg, a, b) ==
    Let(LastRecordOf(d, seg).rec, LAMBDA lastRec :
        seg.recnum <= lastRec /\ seg.recnum <= b /\ a <= lastRec)

\* The cursor of Read(Filter{MinRecordID: a, MaxRecordID: b}) yields without an
\* error the written records a..b, each once, and the segment list it reads
\* has every segment of the directory that holds one of them; w is the world
\* with its catalog initialized.
ReadsRange(w, a, b) ==
    /\ Let(ReadKnown(w, Filter(a, 0, b, 0)), LAMBDA r :
           r.err = "" /\ IdsAndDataOf(r.out) = WrittenBetween(a, b))
    /\ Let(SegNums(findKnownSegments(w.js, Filter(a, 0, b, 0))), LAMBDA listed :
           \A seg \in DOMAIN w.dir : HoldsBetween(w.dir, seg, a, b) => seg.segnum \in listed)

LastKnown == js.lastKnown

Increasing(nums) == \A k \in 1..(Len(nums) - 1) : nums[k] < nums[k + 1]

HeaderDamage ==
    /\ crashes < MaxCrashes
    /\ jw.segWriter = Nil
    /\ sl.pc = "idle"
    /\ \E seg \in FilesOf(dir, "Finalized") :
           /\ \A s \in DOMAIN dir : s.segnum <= seg.segnum
           /\ dir' = [dir EXCEPT ![seg].hdr.sumOK = FALSE]
    /\ crashes' = crashes + 1
    /\ ret' = Ret("HeaderDamage", "", <<>>, ZeroSeg, 0)
    /\ UNCHANGED <<wl, js, jw, panicked, sl, now, written>>

\* Writing, with a damage of the last Finalized segment's header.
NextFail ==
    \/ DoWriteRecord
    \/ DoCommit
    \/ DoFinishWriting
    \/ DoStartWriting
    \/ DoRotate
    \/ Reopen
    \/ HeaderDamage

SpecFail == Init /\ [][NextFail]_vars

\* The writer is not prepared and its preparation would fail.
PrepareFails ==
    /\ ~jw.writable
    /\ jw.writeErr = ""
    /\ prepareToWrite_locked(TheWorld).err # ""

\* C18: WriteRecord with non-empty data returns nil only if the record was
\* appended to the journal; if preparing the writer fails it returns a non-nil
\* error instead of dropping the record silently.
C18_NilMeansAppended ==
    [][(ret'.op = "WriteRecord" /\ ret'.out # <<<<>>>>)
           => /\ ret'.err = "" => /\ Len(written') = Len(written) + 1
                                  /\ written'[Len(written')].Data = ret'.out[1]
                                  /\ \E seg \in DOMAIN dir' :
                                         \E k \in DOMAIN IdsAndData(dir', seg) :
                                             IdsAndData(dir', seg)[k] =
                                                 [ID |-> Len(written'), Data |-> ret'.out[1]]
              /\ PrepareFails => ret'.err # ""]_vars

\* C19: after a fatal error of the writer the error is cached in writeErr, and
\* every later WriteRecord and StartWriting short-circuits on it without
\* touching the files.
C19_FatalErrorIsCached ==
    [][/\ (/\ ret'.op = "StartWriting" \/ (ret'.op = "WriteRecord" /\ ret'.out # <<<<>>>>)
           /\ PrepareFails)
              => jw'.writeErr # ""
       /\ (jw.writeErr # "" /\ ret'.op \in {"StartWriting", "WriteRecord"})
              => dir' = dir /\ js' = js /\ jw' = jw]_vars

\* ------------------------------------------------ two threads and the write lock

\* A lock that is taken whether it is held or not.
writeLockFree_Always == TRUE

\* jw.writeLock.Lock() returns: nobody holds the lock.
writeLockFree == wl.holder = "none"

\* Thread A calls WriteRecord, FinishWriting or StartWriting: the call takes
\* writeLock and is inside the operation (StartWriting: its lock is held by the
\* background preparation) until AEnd.
ABegin ==
    \E op \in {"WriteRecord", "FinishWriting", "StartWriting"}, ts \in 0..MaxClock, data \in Payloads :
        /\ ~panicked
        /\ writeLockFree
        /\ wl.a.op = "idle"
        /\ op = "WriteRecord" => Len(written) < MaxRecs /\ data # <<>>
        /\ op # "WriteRecord" => ts = 0 /\ data = <<>>
        /\ wl' = [wl EXCEPT !.holder = "A", !.a = [op |-> op, ts |-> ts, data |-> data]]
        /\ UNCHANGED <<dir, js, jw, panicked, sl, now, written, crashes, ret>>

\* What thread A's operation makes of the world.  Gives [w, err, wrote].
AResult ==
    IF wl.a.op = "WriteRecord" THEN WriteRecord(TheWorld, wl.a.ts, wl.a.data, now)
    ELSE IF wl.a.op = "FinishWriting"
    THEN Let(FinishWriting(TheWorld, closeAndContinueLater), LAMBDA f :
             [w |-> f.w, err |-> f.err, wrote |-> FALSE])
    ELSE [w |-> StartWriting(TheWorld), err |-> "", wrote |-> FALSE]

\* Thread A's operation is done and writeLock released.
AEnd ==
    LET r == AResult
    IN /\ ~panicked
       /\ wl.a.op \notin {"idle", "Finalize"}
       /\ Becomes(r.w)
       /\ written' = IF r.wrote
                     THEN Append(written, [ID |-> Len(written) + 1,
                                           Timestamp |-> IF wl.a.ts = 0 THEN now ELSE wl.a.ts,
                                           Data |-> wl.a.data])
                     ELSE written
       /\ wl' = [wl EXCEPT !.holder = "none", !.a = NoThreads.a]
       /\ ret' = Ret(wl.a.op, r.err, <<>>, ZeroSeg, 0)
       /\ UNCHANGED <<sl, now, crashes>>

\* Thread B calls Commit, which takes no lock: it reads jw.segWriter and, if
\* there is none, returns; otherwise it goes on to commit.
CommitBegin ==
    /\ ~panicked
    /\ wl.b = "idle"
    /\ wl' = [wl EXCEPT !.b = IF jw.segWriter = Nil THEN "idle" ELSE "commit"]
    /\ ret' = IF jw.segWriter = Nil THEN Ret("Commit", "", <<>>, ZeroSeg, 0) ELSE ret
    /\ UNCHANGED <<dir, js, jw, panicked, sl, now, written, crashes>>

\* Thread B's Commit reads jw.segWriter again and commits: a writer that is
\* gone by now is a nil dereference.
CommitEnd ==
    /\ ~panicked
    /\ wl.b = "commit"
    /\ IF jw.segWriter = Nil
       THEN panicked' = TRUE /\ UNCHANGED <<dir, js, jw>>
       ELSE Becomes(Commit(TheWorld))
    /\ wl' = [wl EXCEPT !.b = "idle"]
    /\ ret' = Ret("Commit", IF jw.segWriter = Nil THEN "panic" ELSE "", <<>>, ZeroSeg, 0)
    /\ UNCHANGED <<sl, now, written, crashes>>

\* Thread B calls Autocommit(now), which takes writeLock.
AutocommitBegin ==
    /\ ~panicked
    /\ AutocommitInterval # 0
    /\ writeLockFree
    /\ wl.b = "idle"
    /\ wl' = [wl EXCEPT !.holder = "B", !.b = "autocommit"]
    /\ UNCHANGED <<dir, js, jw, panicked, sl, now, written, crashes, ret>>

\* Thread B's Autocommit is done and writeLock released.
AutocommitEnd ==
    /\ ~panicked
    /\ wl.b = "autocommit"
    /\ Becomes(Autocommit(TheWorld, now))
    /\ wl' = [wl EXCEPT !.holder = "none", !.b = "idle"]
    /\ ret' = Ret("Autocommit", "", <<>>, ZeroSeg, 0)
    /\ UNCHANGED <<sl, now, written, crashes>>

\* Two threads on one journal: one writes, the other commits.
NextLock ==
    \/ Tick
    \/ ABegin
    \/ AEnd
    \/ CommitBegin
    \/ CommitEnd
    \/ AutocommitBegin
    \/ AutocommitEnd

SpecLock == Init /\ [][NextLock]_vars

\* C20: WriteRecord, Commit, Rotate, StartWriting, FinishWriting and Autocommit
\* are mutually exclusive on the write lock: Commit never reads or modifies the
\* segment writer while another thread is inside WriteRecord, FinishWriting or
\* the background preparation of StartWriting.
C20_WriterOpsExclusive ==
    wl.b # "idle" => wl.a.op = "idle"

\* ------------------------------------------------- two callers of Seal and Trim

\* A second caller's Seal: nextToSeal before the lock, and TryLock.
OtherSealBegin ==
    LET c == SealCheck(TheWorld)
    IN /\ ~panicked
       /\ wl.s = "idle"
       /\ Becomes(c.w)
       /\ wl' = [wl EXCEPT !.s = IF c.go /\ TryLock THEN "seal" ELSE "idle"]
       /\ ret' = IF c.go /\ TryLock THEN ret ELSE Ret("Seal", "", <<>>, ZeroSeg, 0)
       /\ UNCHANGED <<sl, now, written, crashes>>

\* A second caller's Seal under the lock, to its return.
OtherSealEnd ==
    LET s == SealLocked(SealOpen(TheWorld))
    IN /\ ~panicked
       /\ wl.s = "seal"
       /\ Becomes(s.w)
       /\ wl' = [wl EXCEPT !.s = "idle"]
       /\ ret' = Ret("Seal", s.err, <<>>, s.seg, 0)
       /\ UNCHANGED <<sl, now, written, crashes>>

\* A second caller's Trim: nextToTrim before the lock, and TryLock.
OtherTrimBegin ==
    LET c == TrimCheck(TheWorld)
    IN /\ ~panicked
       /\ wl.s = "idle"
       /\ Becomes(c.w)
       /\ wl' = [wl EXCEPT !.s = IF c.go /\ TryLock THEN "trim" ELSE "idle"]
       /\ ret' = IF c.go /\ TryLock THEN ret ELSE Ret("Trim", "", <<>>, ZeroSeg, 0)
       /\ UNCHANGED <<sl, now, written, crashes>>

\* A second caller's Trim under the lock, to its return.
OtherTrimEnd ==
    LET t == TrimLocked(TrimCheck(TheWorld))
    IN /\ ~panicked
       /\ wl.s = "trim"
       /\ Becomes(t.w)
       /\ wl' = [wl EXCEPT !.s = "idle"]
       /\ ret' = Ret("Trim", t.err, <<>>, t.seg, 0)
       /\ UNCHANGED <<sl, now, written, crashes>>

\* The writer and a reader beside two callers of Seal and Trim.
NextSealLock ==
    \/ DoWriteRecord
    \/ DoCommit
    \/ DoRotate
    \/ DoRead
    \/ SealBegin
    \/ SealOpenStep
    \/ SealCopyStep
    \/ SealDoneStep
    \/ TrimBegin
    \/ TrimRecheck
    \/ TrimRemoveStep
    \/ TrimDoneStep
    \/ OtherSealBegin
    \/ OtherSealEnd
    \/ OtherTrimBegin
    \/ OtherTrimEnd

SpecSealLock == Init /\ [][NextSealLock]_vars

\* A call of Seal or Trim returns while the other caller holds sealLock.
ReturnsBesideHolder ==
    /\ ret'.op \in {"Seal", "Trim"}
    /\ \/ sl.pc # "idle" /\ sl' = sl /\ wl.s = "idle" /\ wl'.s = "idle"
       \/ wl.s # "idle" /\ wl' = wl /\ sl.pc = "idle" /\ sl'.pc = "idle"

\* WriteRecord or Commit runs from call to return while sealLock is held.
WritesBesideHolder ==
    /\ sealLockHeld
    /\ sl' = sl
    /\ wl' = wl
    /\ ret'.op \in {"WriteRecord", "Commit"}

SealFaults == {"sealer", "cancelled", "close", "rename"}

\* Seal from the header of the temporary file to its rename, when the sealer, the
\* context, outf.Close or os.Rename fails.  ok is set before os.Rename, so the
\* deferred closeAndDeleteUnlessOK2 removes the temporary file for every failure
\* but that of the rename, which leaves it written and closed.  Gives [w, seg, err].
SealCopyFault(w, next, sr, fault) ==
    Let(SealRename(w, WithStatus(next, "sealingTemp"), WithStatus(next, "sealingTemp"),
                   Header("S", next.segnum, next.ts, next.recnum, sr.h.lastTS, sr.h.lastRec),
                   sealRecords(sr, next.ts, <<>>)), LAMBDA s :
        IF s.err # "" THEN s
        ELSE IF fault = "rename" THEN [s EXCEPT !.err = fault]
        ELSE [w |-> [w EXCEPT !.dir = Remove(@, WithStatus(next, "sealingTemp"))],
              seg |-> WithStatus(next, "sealingTemp"), err |-> fault])

\* Seal: the records copied, and a failure from outside before the Sealed file
\* is in place.
SealCopyFails ==
    \E fault \in SealFaults :
        LET s == SealCopyFault(TheWorld, sl.next, sl.sr, fault)
        IN /\ ~panicked
           /\ sl.pc = "sealCopy"
           /\ crashes < MaxCrashes
           /\ Becomes(s.w)
           /\ sl' = At("sealDone", sl.next, sl.sr, s.seg, s.err)
           /\ crashes' = crashes + 1
           /\ UNCHANGED <<wl, now, written, ret>>

\* The writer beside a Seal that may fail.
NextSealErr ==
    \/ DoWriteRecord
    \/ DoCommit
    \/ DoRotate
    \/ DoRead
    \/ SealBegin
    \/ SealOpenStep
    \/ SealCopyStep
    \/ SealCopyFails
    \/ SealDoneStep

SpecSealErr == Init /\ [][NextSealErr]_vars

\* Seal returns an error for the Finalized segment it had opened.
SealReturnsError ==
    /\ sl.pc = "sealDone"
    /\ sl.err # ""
    /\ sl'.pc = "idle"
    /\ ret'.op = "Seal"

\* C22: whenever Seal returns an error, no SealingTemp file of that segment is
\* left in the directory, no Sealed segment of it was added to the directory or
\* the catalog, the catalog's sealingTemp is cleared and the Finalized source
\* file is as it was when Seal opened it.
C22_FailedSealLeavesNothing ==
    [][SealReturnsError
           => /\ ret'.err # ""
              /\ \A s \in DOMAIN dir' :
                     s.segnum = sl.next.segnum => s.status \notin {"sealingTemp", "Sealed"}
              /\ \A i \in 1..Len(js'.sealed) : js'.sealed[i].segnum # sl.next.segnum
              /\ IsZero(js'.sealingTemp)
              /\ Exists(dir', sl.next)
              /\ dir'[sl.next] = File(sl.sr.h, sl.sr.bytes)]_vars

\* ------------------------------------------- a cursor beside a finalization

\* Thread A's Rotate of the open Draft, as far as os.Rename in segmentWriter.close:
\* the commit, the Finalized header and the new name are in the directory, the
\* catalog still lists the Draft.
FinalizeRenameStep ==
    LET r == FinishWriting(TheWorld, closeAndFinalize)
    IN /\ ~panicked
       /\ writeLockFree
       /\ wl.a.op = "idle"
       /\ jw.segWriter # Nil
       /\ IsDraft(jw.segWriter.seg.status)
       /\ r.err = ""
       /\ dir' = r.w.dir
       /\ jw' = r.w.jw
       /\ wl' = [wl EXCEPT !.holder = "A", !.a = [op |-> "Finalize", ts |-> 0, data |-> <<>>]]
       /\ UNCHANGED <<js, panicked, sl, now, written, crashes, ret>>

\* The catalog once the rename is done: updateStateWithSegmentFinalized, then
\* close_locked's handleCommit of the segment's last record.
FinalizedIn(w, oldSeg, newSeg) ==
    handleCommit(updateStateWithSegmentFinalized(w, oldSeg, newSeg),
                 Meta(w.dir[newSeg].hdr.lastRec, w.dir[newSeg].hdr.lastTS))

\* Thread A's Rotate from the catalog update to its return.
FinalizeUpdateStep ==
    /\ ~panicked
    /\ wl.a.op = "Finalize"
    /\ js' = FinalizedIn(TheWorld, last(js), WithStatus(last(js), "Finalized")).js
    /\ wl' = [wl EXCEPT !.holder = "none", !.a = NoThreads.a]
    /\ ret' = Ret("Rotate", "", <<>>, ZeroSeg, 0)
    /\ UNCHANGED <<dir, jw, panicked, sl, now, written, crashes>>

\* Cursor.next takes its segments from the catalog; the cursor then stands
\* before one of them, the earlier ones read.
CursorListStep ==
    LET w0 == WithInit(TheWorld)
        segs == findKnownSegments(w0.js, NoFilter)
    IN /\ ~panicked
       /\ sl.pc = "idle"
       /\ Becomes(w0)
       /\ IF segs = <<>>
          THEN sl' = Idle /\ ret' = Ret("Read", "", <<>>, ZeroSeg, 0)
          ELSE \E i \in 1..Len(segs) :
                   /\ sl' = At("cursorOpen", segs[i], Nil, ZeroSeg, "")
                   /\ ret' = ret
       /\ UNCHANGED <<wl, now, written, crashes>>

\* Cursor.next opens the segment it stands before.
CursorOpenStep ==
    /\ ~panicked
    /\ sl.pc = "cursorOpen"
    /\ sl' = Idle
    /\ ret' = Ret("Read", openSegment(dir, sl.next).err, <<>>, sl.next, 0)
    /\ UNCHANGED <<dir, js, jw, panicked, wl, now, written, crashes>>

\* The writer's thread, finalizing in two steps, beside a cursor.
NextCursor ==
    \/ Tick
    \/ ABegin
    \/ AEnd
    \/ FinalizeRenameStep
    \/ FinalizeUpdateStep
    \/ CursorListStep
    \/ CursorOpenStep

SpecCursor == Init /\ [][NextCursor]_vars

\* The cursor opens a segment while the writer is between the rename of that
\* segment and the catalog update.
OpensWhileFinalizing ==
    /\ sl.pc = "cursorOpen"
    /\ sl'.pc = "idle"
    /\ wl.a.op = "Finalize"
    /\ sl.next.segnum = last(js).segnum

MaxRecordSize == MaxOf({Len(p) : p \in Payloads})

\* What a record adds to its file beyond its payload: its header and the commit
\* that follows it.
RecordOverhead == Len(appendRecordHeader(MaxRecordSize, MaxClock)) + commitSize

Intervals == {0, AutocommitInterval}

\* Autocommit(now) on a journal with one of the intervals; ret.actions is 1 when
\* it returned true.
DoAutocommit ==
    \E dur \in Intervals :
        /\ ~panicked
        /\ Becomes(AutocommitWith(TheWorld, now, dur))
        /\ ret' = Ret("Autocommit", "", <<dur>>, ZeroSeg,
                      IF Autocommits(TheWorld, now, dur) THEN 1 ELSE 0)
        /\ UNCHANGED <<wl, sl, now, written, crashes>>

\* One writer under a moving clock, with Autocommit calls.
NextAuto ==
    \/ Tick
    \/ DoWriteRecord
    \/ DoCommit
    \/ DoFinishWriting
    \/ DoStartWriting
    \/ DoAutocommit

SpecAuto == Init /\ [][NextAuto]_vars

\* How many records of seg's file come after its last commit.
Uncommitted(d, seg) ==
    Let(LastRecordOf(d, seg), LAMBDA sr :
        sr.rec - (IF sr.committedRec = 0 THEN seg.recnum - 1 ELSE sr.committedRec))

\* The open Draft holds a record that is not committed.
HasUncommitted ==
    /\ jw.segWriter # Nil
    /\ Exists(dir, jw.segWriter.seg)
    /\ Uncommitted(dir, jw.segWriter.seg) >= 1

\* Autocommit committed: a commit was appended to the open Draft, and true returned.
Autocommitted ==
    /\ ret'.actions = 1
    /\ jw.segWriter # Nil
    /\ dir' = [dir EXCEPT ![jw.segWriter.seg].bytes =
                   @ \o CommitBytes(CommitSum(jw.segWriter.dataHash))]
    /\ Uncommitted(dir', jw.segWriter.seg) = 0

\* C25: Autocommit(now) commits iff the interval is positive, the open Draft has
\* an uncommitted record and now - first_uncommitted_at >= interval; otherwise it
\* changes nothing and returns false.  first_uncommitted_at is the clock's time
\* at the first record written after the previous commit: it is not the record's
\* own timestamp and later uncommitted records do not move it.
C25_AutocommitWhenDue ==
    [][/\ (ret'.op = "Autocommit")
              => IF /\ Head(ret'.out) > 0
                    /\ HasUncommitted
                    /\ now - jw.segWriter.firstUncommittedWriteTS >= Head(ret'.out)
                 THEN Autocommitted
                 ELSE ret'.actions = 0 /\ dir' = dir /\ js' = js /\ jw' = jw
       /\ (ret'.op = "WriteRecord" /\ written' # written)
              => /\ jw'.segWriter # Nil
                 /\ Uncommitted(dir', jw'.segWriter.seg) >= 1
                 /\ IF Uncommitted(dir', jw'.segWriter.seg) = 1
                    THEN jw'.segWriter.firstUncommittedWriteTS = now
                    ELSE /\ jw.segWriter # Nil
                         /\ jw'.segWriter.firstUncommittedWriteTS
                                = jw.segWriter.firstUncommittedWriteTS]_vars

\* An Autocommit committed two records, the first written with a timestamp of
\* its own one tick before the second.
C25_Witness ==
    /\ ret.op = "Autocommit"
    /\ ret.actions = 1
    /\ now = 2
    /\ jw.segWriter # Nil
    /\ jw.segWriter.firstUncommittedWriteTS = 1
    /\ Len(written) = 2
    /\ written[1].Timestamp = 2
    /\ LastCommittedOnDisk(dir) = 2

\* ------------------------------------------------------------------ autorotate

\* needsRotation that does not ask what the last segment is.
needsRotation_AnyLast(j, nowTS, dur) ==
    IF IsZero(last(j)) THEN FALSE ELSE ~(nowTS - last(j).ts < dur)

\* journalState.needsRotation with autorotate interval dur.
needsRotation(j, nowTS, dur) ==
    IF IsZero(last(j)) \/ ~IsDraft(last(j).status) THEN FALSE
    ELSE ~(nowTS - last(j).ts < dur)

\* Journal.needsRotation: never with interval 0; otherwise over the initialized
\* catalog.  Gives [w, need].
JournalNeedsRotation(w, nowTS, dur) ==
    IF dur = 0 THEN [w |-> w, need |-> FALSE]
    ELSE Let(WithInit(w), LAMBDA w0 : [w |-> w0, need |-> needsRotation(w0.js, nowTS, dur)])

\* Journal.Autorotate(now): Rotate when the journal needs rotation.
\* Gives [w, ok, err].
Autorotate(w, nowTS, dur) ==
    Let(JournalNeedsRotation(w, nowTS, dur), LAMBDA n :
        IF ~n.need THEN [w |-> n.w, ok |-> FALSE, err |-> ""]
        ELSE Let(Rotate(n.w), LAMBDA r : [w |-> r.w, ok |-> r.err = "", err |-> r.err]))

\* One journal's turn in Set.Autocommit: Autocommit, then Autorotate unless the
\* commit failed.  jn is [w, ac, rot]: a journal and its two intervals.
\* Gives [jn, actions].
SetAutocommitOne(jn, nowTS) ==
    Let(AutocommitWith(jn.w, nowTS, jn.ac), LAMBDA c :
    Let(Autorotate(c, nowTS, jn.rot), LAMBDA r :
        [jn |-> [jn EXCEPT !.w = r.w],
         actions |-> (IF Autocommits(jn.w, nowTS, jn.ac) THEN 1 ELSE 0) + (IF r.ok THEN 1 ELSE 0)]))

\* Set.Autocommit over the journals jns.  Gives [jns, actions].
RECURSIVE SetAutocommit(_, _, _, _)
SetAutocommit(jns, i, nowTS, actions) ==
    IF i > Len(jns) THEN [jns |-> jns, actions |-> actions]
    ELSE Let(SetAutocommitOne(jns[i], nowTS), LAMBDA r :
             SetAutocommit([jns EXCEPT ![i] = r.jn], i + 1, nowTS, actions + r.actions))

\* Set.Autoseal over journals without seal keys: SealAndTrimOnce's Seal returns
\* at CanSeal, its Trim runs.  Gives [jns, actions].
RECURSIVE SetAutoseal(_, _, _)
SetAutoseal(jns, i, actions) ==
    IF i > Len(jns) THEN [jns |-> jns, actions |-> actions]
    ELSE Let(Trim(jns[i].w), LAMBDA t :
             SetAutoseal([jns EXCEPT ![i].w = t.w], i + 1,
                         actions + (IF t.err = "" /\ ~IsZero(t.seg) THEN 1 ELSE 0)))

\* Set.Process: Autocommit's actions plus Autoseal's.  Gives [jns, actions].
Process(jns, nowTS) ==
    Let(SetAutocommit(jns, 1, nowTS, 0), LAMBDA c : SetAutoseal(c.jns, 1, c.actions))

\* Autorotate(now) on a journal with one of the intervals; ret.actions is 1 when
\* it returned true.
DoAutorotate ==
    \E dur \in Intervals :
        LET r == Autorotate(TheWorld, now, dur)
        IN /\ ~panicked
           /\ sl.pc = "idle"
           /\ Becomes(r.w)
           /\ ret' = Ret("Autorotate", r.err, <<dur>>, ZeroSeg, IF r.ok THEN 1 ELSE 0)
           /\ UNCHANGED <<wl, sl, now, written, crashes>>

\* Set.Process over two journals without seal keys and without autocommit that
\* hold what this journal holds, each with an autorotate interval of its own.
\* The first of them is this journal.
DoProcess ==
    \E d1 \in Intervals, d2 \in Intervals :
        LET r == Process(<<[w |-> TheWorld, ac |-> 0, rot |-> d1],
                           [w |-> TheWorld, ac |-> 0, rot |-> d2]>>, now)
        IN /\ ~panicked
           /\ sl.pc = "idle"
           /\ FilesOf(dir, "Sealed") = {}
           /\ Becomes(r.jns[1].w)
           /\ ret' = Ret("Process", "", <<d1, d2>>, ZeroSeg, r.actions)
           /\ UNCHANGED <<wl, sl, now, written, crashes>>

\* One writer under a moving clock, with Seal and Trim, Autorotate and
\* Set.Process calls.
NextRot ==
    \/ Tick
    \/ DoWriteRecord
    \/ DoCommit
    \/ DoFinishWriting
    \/ DoSeal
    \/ DoTrim
    \/ DoAutorotate
    \/ DoProcess

SpecRot == Init /\ [][NextRot]_vars

\* The files of the highest segment number in the directory.
LastOnDisk == {s \in DOMAIN dir : \A t \in DOMAIN dir : t.segnum <= s.segnum}

\* A journal with autorotate interval dur is due for rotation: its last
\* segment is a Draft whose first timestamp is at least dur old.
RotationDue(dur) ==
    /\ dur > 0
    /\ \E s \in LastOnDisk : IsDraft(s.status) /\ now - s.ts >= dur

\* The step finalized the Draft: its records are in the Finalized file of the
\* same segment, no Draft is left and the writer is closed.
RotatedNow ==
    /\ \A s \in FilesOf(dir, "Draft") :
           /\ WithStatus(s, "Finalized") \in DOMAIN dir'
           /\ IdsAndData(dir', WithStatus(s, "Finalized")) = IdsAndData(dir, s)
    /\ FilesOf(dir', "Draft") = {}
    /\ jw'.segWriter = Nil

\* C26: Autorotate(now) rotates iff the autorotate interval is positive, the
\* last segment is a Draft and now - last.first_ts >= interval; on an empty
\* journal and with a Finalized or Sealed last segment it does nothing;
\* Set.Process reports one action for each journal it rotated.
C26_AutorotateWhenDue ==
    [][/\ (ret'.op = "Autorotate")
              => IF RotationDue(Head(ret'.out))
                 THEN ret'.actions = 1 /\ ret'.err = "" /\ RotatedNow
                 ELSE ret'.actions = 0 /\ ret'.err = "" /\ dir' = dir /\ jw' = jw
       /\ (ret'.op = "Process")
              => /\ ret'.actions = Cardinality({k \in 1..2 : RotationDue(ret'.out[k])})
                 /\ IF RotationDue(ret'.out[1]) THEN RotatedNow ELSE dir' = dir /\ jw' = jw]_vars

\* Set.Process rotated both journals: the Draft was one tick old.
C26_Witness ==
    /\ ret.op = "Process"
    /\ ret.actions = 2
    /\ now = 2
    /\ FilesOf(dir, "Draft") = {}
    /\ \E s \in FilesOf(dir, "Finalized") : s.ts = 1 /\ \A t \in DOMAIN dir : t.segnum <= s.segnum

\* ------------------------------------------------------------- merged records

\* cursorHeap.Less over two cursors' current records a and b, each with the key
\* of its source.
Less(a, b) ==
    IF a.Timestamp # b.Timestamp THEN a.Timestamp < b.Timestamp
    ELSE IF a.Source # b.Source THEN a.Source < b.Source
    ELSE a.ID < b.ID

\* The record at position p of the source k, as the heap's item holds it.
ItemOf(recs, k, p) ==
    [ID |-> recs[k][p].ID, Timestamp |-> recs[k][p].Timestamp, Data |-> recs[k][p].Data, Source |-> k]

\* The loop of MergedRecords: the heap holds the cursors that have a record
\* (pos[k] is the position of the cursor of source k in what it yields); the
\* least one is popped, its record yielded and the cursor advanced.
RECURSIVE mergeLoop(_, _, _)
mergeLoop(recs, pos, out) ==
    Let({k \in DOMAIN recs : pos[k] <= Len(recs[k])}, LAMBDA h :
        IF h = {} THEN out
        ELSE Let(CHOOSE k \in h :
                     \A j \in h \ {k} : Less(ItemOf(recs, k, pos[k]), ItemOf(recs, j, pos[j])),
                 LAMBDA k : mergeLoop(recs, [pos EXCEPT ![k] = @ + 1],
                                      Append(out, ItemOf(recs, k, pos[k])))))

\* MergedRecords(journals, Filter{}) drained; recs[k] is what the cursor of the
\* journal of source k yields.
MergedRecords(recs) == mergeLoop(recs, [k \in DOMAIN recs |-> 1], <<>>)

\* The most records the other journal of a merge holds.
MaxOther == 2

\* What another journal yields: up to MaxOther records with ids from 1 and
\* timestamps that do not decrease.
OtherJournals ==
    {recs \in UNION {[1..n -> [ID : 1..MaxOther, Timestamp : 1..MaxClock, Data : {<<7>>}]] : n \in 0..MaxOther} :
        /\ \A i \in DOMAIN recs : recs[i].ID = i
        /\ \A i \in DOMAIN recs : \A j \in DOMAIN recs :
               i < j => recs[i].Timestamp <= recs[j].Timestamp}

\* MergedRecords over another journal, of source 1, and this one, of source 2.
\* ret.out is the pair of what was yielded and what the other journal holds.
DoMerged ==
    \E other \in OtherJournals :
        LET r == Read(TheWorld, NoFilter)
        IN /\ ~panicked
           /\ Becomes(r.w)
           /\ ret' = Ret("MergedRecords", r.err, <<MergedRecords(<<other, r.out>>), other>>, ZeroSeg, 0)
           /\ UNCHANGED <<wl, sl, now, written, crashes>>

\* One writer, and merges of its journal with another.
NextMerge ==
    \/ DoWriteRecord
    \/ DoCommit
    \/ DoFinishWriting
    \/ DoRotate
    \/ DoMerged

SpecMerge == Init /\ [][NextMerge]_vars

\* The records of source k among the merged ones, in the order they were yielded.
RECURSIVE OfSource(_, _)
OfSource(out, k) ==
    IF out = <<>> THEN <<>>
    ELSE IF Head(out).Source = k
    THEN <<[ID |-> Head(out).ID, Timestamp |-> Head(out).Timestamp, Data |-> Head(out).Data]>>
             \o OfSource(Tail(out), k)
    ELSE OfSource(Tail(out), k)

\* The merged record a comes before b: by timestamp, then source, then record id.
Before(a, b) ==
    \/ a.Timestamp < b.Timestamp
    \/ (a.Timestamp = b.Timestamp /\ a.Source < b.Source)
    \/ (a.Timestamp = b.Timestamp /\ a.Source = b.Source /\ a.ID < b.ID)

\* out is ordered by timestamp, then source, then record id.
MergedInOrder(out) ==
    \A i \in DOMAIN out : \A j \in DOMAIN out : i < j => Before(out[i], out[j])

\* C27: MergedRecords over several journals yields every record of every
\* journal exactly once, ordered by timestamp ascending, ties by source key
\* ascending and then by record id, the records of one source in their
\* original order.
C27_MergedInTimestampOrder ==
    [][ret'.op = "MergedRecords"
           => /\ OfSource(ret'.out[1], 1) = ret'.out[2]
              /\ OfSource(ret'.out[1], 2) = ReadAll(dir, js, jw, panicked).out
              /\ MergedInOrder(ret'.out[1])]_vars

\* ------------------------------------------------------- the catalog's order

\* The Drafts the catalog lists.
CatalogDrafts == {i \in DOMAIN js.unsealed : IsDraft(js.unsealed[i].status)}

\* C28: in every state of the catalog the unsealed and the sealed sequence are
\* each strictly ascending by segnum, at most one Draft is listed, and a Draft,
\* if listed, has the highest segnum of all; also after a finalization whose
\* rename failed and the writes that follow it, and after recovery.
C28_CatalogIsOrdered ==
    /\ Increasing([k \in DOMAIN js.unsealed |-> js.unsealed[k].segnum])
    /\ Increasing([k \in DOMAIN js.sealed |-> js.sealed[k].segnum])
    /\ Cardinality(CatalogDrafts) <= 1
    /\ \A i \in CatalogDrafts :
           /\ \A k \in DOMAIN js.unsealed : js.unsealed[k].segnum <= js.unsealed[i].segnum
           /\ \A k \in DOMAIN js.sealed : js.sealed[k].segnum < js.unsealed[i].segnum

\* The file of the open Draft is removed from the directory by someone else:
\* the writer's handle still takes what is written, the rename of the
\* finalization will fail.
DraftLost ==
    /\ ~panicked
    /\ crashes < MaxCrashes
    /\ jw.segWriter # Nil
    /\ Exists(dir, jw.segWriter.seg)
    /\ dir' = Remove(dir, jw.segWriter.seg)
    /\ crashes' = crashes + 1
    /\ ret' = Ret("DraftLost", "", <<>>, ZeroSeg, 0)
    /\ UNCHANGED <<wl, js, jw, panicked, sl, now, written>>

\* The caller of the operation that panicked recovers the panic (writeLock was
\* released by the deferred Unlock) and goes on using the journal.
RecoverPanic ==
    /\ panicked
    /\ panicked' = FALSE
    /\ ret' = Ret("recover", "", <<>>, ZeroSeg, 0)
    /\ UNCHANGED <<wl, dir, js, jw, sl, now, written, crashes>>

\* One writer whose finalization may fail at the rename.
NextRename ==
    \/ DoWriteRecord
    \/ DoCommit
    \/ DoRotate
    \/ DoFinishWriting
    \/ Reopen
    \/ DraftLost
    \/ RecoverPanic

SpecRename == Init /\ [][NextRename]_vars

\* ------------------------------------------------- what initialization deletes

\* The segments the catalog lists.
Listed(j) == {j.unsealed[k] : k \in DOMAIN j.unsealed} \cup {j.sealed[k] : k \in DOMAIN j.sealed}

\* C29: the initialization of the catalog deletes only SealingTemp files: every
\* other segment file stays in the directory and is listed in unsealed or in
\* sealed, a Sealed file whose Finalized source is not trimmed yet included.
C29_InitDeletesOnlyTemps ==
    [][(ret'.op = "StartWriting" /\ ~js.initialized /\ js'.initialized)
           => /\ \A s \in (DOMAIN dir) \ (DOMAIN dir') : s.status = "sealingTemp"
              /\ \A s \in DOMAIN dir :
                     s.status # "sealingTemp" => s \in DOMAIN dir' /\ s \in Listed(js')]_vars

\* ------------------------------------------- StartWriting and its preparation

\* StartWriting, from the lock to its return: on a writer that is neither
\* writable nor failed it marks the writer writable and leaves the lock to the
\* goroutine it starts.
StartBegin ==
    /\ ~panicked
    /\ writeLockFree
    /\ wl.a.op = "idle"
    /\ IF jw.writable \/ jw.writeErr # ""
       THEN UNCHANGED <<jw, wl>>
       ELSE /\ jw' = [jw EXCEPT !.writable = TRUE]
            /\ wl' = [wl EXCEPT !.holder = "P", !.p = "preparing"]
    /\ ret' = Ret("StartWriting", "", <<>>, ZeroSeg, 0)
    /\ UNCHANGED <<dir, js, panicked, sl, now, written, crashes>>

\* What the goroutine of StartWriting does: fail(prepareToWrite_locked()).
Prepared(w) == Let(prepareToWrite_locked(w), LAMBDA r : fail(r.w, r.err))

\* The goroutine of StartWriting is done and writeLock released.
PrepareEnd ==
    /\ ~panicked
    /\ wl.p = "preparing"
    /\ Becomes(Prepared(TheWorld))
    /\ wl' = [wl EXCEPT !.holder = "none", !.p = "idle"]
    /\ UNCHANGED <<sl, now, written, crashes, ret>>

\* One thread that calls the writer, StartWriting with its goroutine and a
\* thread that calls Autocommit.
NextStart ==
    \/ Tick
    \/ StartBegin
    \/ PrepareEnd
    \/ ABegin
    \/ AEnd
    \/ FinalizeRenameStep
    \/ FinalizeUpdateStep
    \/ AutocommitBegin
    \/ AutocommitEnd

SpecStart == Init /\ [][NextStart]_vars

\* C30: StartWriting returns while the preparation runs in the background with
\* the write lock held; a WriteRecord, FinishWriting, Rotate or Autocommit
\* issued after StartWriting returned is past the lock only once that
\* preparation is over, so none of them sees the writer marked writable with
\* the preparation unfinished.
C30_OpsWaitForPreparation ==
    [][/\ (wl'.a.op # "idle" \/ wl'.b = "autocommit") => wl'.p = "idle"
       /\ (wl.p = "preparing" /\ wl'.p = "preparing")
              => dir' = dir /\ js' = js /\ jw' = jw /\ written' = written
       /\ (wl.p = "idle" /\ wl'.p = "preparing")
              => ret'.op = "StartWriting" /\ jw'.writable /\ wl'.holder = "P"]_vars

\* StartWriting has returned on a journal that holds a Draft with a record, the
\* preparation has not run yet and the writer is already marked writable.
C30_Witness ==
    /\ wl.p = "preparing"
    /\ wl.a.op = "idle"
    /\ ret.op = "StartWriting"
    /\ jw.writable
    /\ jw.segWriter = Nil
    /\ FilesOf(dir, "Draft") # {}
    /\ written # <<>>

\* ---------------------------------------------- a Draft with a foreign header

\* What can be wrong with a header, one thing at a time.
HeaderProblems ==
    {"version", "invariant", "checksum", "magic", "segnum", "firstTS", "firstRec"}

\* The header hdr of a file named seg with the problem p.
HeaderWith(hdr, seg, p) ==
    IF p = "version" THEN [hdr EXCEPT !.magic = "X"]
    ELSE IF p = "invariant" THEN [hdr EXCEPT !.inv = FALSE]
    ELSE IF p = "checksum" THEN [hdr EXCEPT !.sumOK = FALSE]
    ELSE IF p = "magic" THEN [hdr EXCEPT !.magic = IF IsSealed(seg.status) THEN "D" ELSE "S"]
    ELSE IF p = "segnum" THEN [hdr EXCEPT !.segnum = @ + 1]
    ELSE IF p = "firstTS" THEN [hdr EXCEPT !.firstTS = @ + 1]
    ELSE [hdr EXCEPT !.firstRec = @ + 1]

\* While no segment is open for writing the newest file of the directory, a
\* Draft, gets a header with one problem: the file of another journal or of
\* another version, or a damaged one.  ret.seg names the file, ret.out the problem.
HeaderProblem ==
    /\ crashes < MaxCrashes
    /\ jw.segWriter = Nil
    /\ sl.pc = "idle"
    /\ \E seg \in FilesOf(dir, "Draft"), p \in HeaderProblems :
           /\ \A s \in DOMAIN dir : s.segnum <= seg.segnum
           /\ dir' = [dir EXCEPT ![seg].hdr = HeaderWith(@, seg, p)]
           /\ ret' = Ret("HeaderProblem", "", <<p>>, seg, 0)
    /\ crashes' = crashes + 1
    /\ UNCHANGED <<wl, js, jw, panicked, sl, now, written>>

\* Writing, with a Draft whose header gets a problem while it is closed.
NextHeader ==
    \/ DoWriteRecord
    \/ DoCommit
    \/ DoFinishWriting
    \/ DoStartWriting
    \/ DoRotate
    \/ Reopen
    \/ HeaderProblem

SpecHeader == Init /\ [][NextHeader]_vars

\* The error the claim gives to a header with the problem p.
Classified(p) ==
    IF p = "version" THEN "unsupported"
    ELSE IF p = "invariant" THEN "incompatible"
    ELSE "corrupt"

\* The newest file of the directory is a Draft whose header is of another
\* journal or of another version, and no segment is open.
ForeignDrafts ==
    {seg \in FilesOf(dir, "Draft") :
        /\ \A s \in DOMAIN dir : s.segnum <= seg.segnum
        /\ readSegmentHeader(dir[seg].hdr, seg) \in {"incompatible", "unsupported"}}

\* C31: opening a segment gives UnsupportedVersion for an unknown magic,
\* Incompatible for another JournalInvariant and CorruptedFile for a bad
\* checksum, a magic that contradicts the status or a segnum, first timestamp or
\* first record number other than the file name's; a StartWriting that finds a
\* Draft which is Incompatible or UnsupportedVersion leaves the file as it is
\* and its preparation fails, so that no segment is open for writing after it.
C31_HeaderErrorsClassified ==
    [][/\ ret'.op = "HeaderProblem"
              => readSegmentHeader(dir'[ret'.seg].hdr, ret'.seg) = Classified(ret'.out[1])
       /\ (ret'.op = "StartWriting" /\ ~jw.writable /\ jw.writeErr = "")
              => \A seg \in ForeignDrafts :
                     /\ seg \in DOMAIN dir' /\ dir'[seg] = dir[seg]
                     /\ jw'.segWriter = Nil
                     /\ ~jw'.writable]_vars

\* ------------------------------------------- a kill in the middle of finalizing

\* What a kill inside segmentWriter.close(closeAndFinalize) leaves: "header", the
\* header is rewritten with the Finalized magic and the file still has its Draft
\* name; "rename", the file has its Finalized name and the rewritten header,
\* which was not synced, is lost.
KillOutcomes == {"header", "rename"}

\* The process is killed while it finalizes the open Draft, after the commit and
\* the sync; a new process opens the journal.
KillMidFinalize ==
    /\ crashes < MaxCrashes
    /\ ~panicked
    /\ sl.pc = "idle"
    /\ jw.segWriter # Nil
    /\ jw.segWriter.seg.status = "Draft"
    /\ Exists(dir, jw.segWriter.seg)
    /\ \E outcome \in KillOutcomes :
           LET c == commit(TheWorld)
               sw == c.jw.segWriter
               newSeg == WithStatus(sw.seg, "Finalized")
           IN /\ dir' = IF outcome = "header"
                        THEN [c.dir EXCEPT ![sw.seg].hdr =
                                  Header("F", sw.seg.segnum, sw.seg.ts, sw.seg.recnum, sw.ts, sw.nextRec - 1)]
                        ELSE Put(Remove(c.dir, sw.seg), newSeg, c.dir[sw.seg])
              /\ ret' = Ret("KillMidFinalize", "", <<outcome>>,
                            IF outcome = "header" THEN sw.seg ELSE newSeg, 0)
    /\ js' = NewState
    /\ jw' = NewWriter
    /\ panicked' = FALSE
    /\ crashes' = crashes + 1
    /\ UNCHANGED <<wl, sl, now, written>>

\* Writing and reading, with a kill in the middle of a finalization.
NextMidFinalize ==
    \/ DoWriteRecord
    \/ DoCommit
    \/ DoFinishWriting
    \/ DoStartWriting
    \/ DoRotate
    \/ DoRead
    \/ KillMidFinalize

SpecMidFinalize == Init /\ [][NextMidFinalize]_vars

\* The files with a Draft name and the Finalized magic.
DraftNamedFinalized ==
    {seg \in DOMAIN dir : seg.status = "Draft" /\ dir[seg].hdr.magic = "F"}

\* The files with a Finalized name and the Draft magic.
FinalizedNamedDraft ==
    {seg \in DOMAIN dir : seg.status = "Finalized" /\ dir[seg].hdr.magic = "D"}

\* C32 as claimed: a file with a Draft name and the Finalized magic and a file
\* with a Finalized name and the Draft magic are both opened without a
\* CorruptedFile error, and so is the journal read right after the kill that
\* left such a file.
C32_BothCombinationsAccepted ==
    [][/\ \A seg \in DraftNamedFinalized \cup FinalizedNamedDraft :
              openSegment(dir, seg).err # "corrupt"
       /\ (ret.op = "KillMidFinalize" /\ ret'.op = "Read") => ret'.err # "corrupt"]_vars

\* C32 amended: a file with a Draft name and the Finalized magic is opened
\* without an error, and the journal read right after the kill yields the id
\* and the data of every record written; a file with a Finalized name and the Draft magic is refused
\* as a CorruptedFile, and so is the read of the journal.
C32_DraftNamedFinalizedAccepted ==
    [][/\ \A seg \in DraftNamedFinalized : openSegment(dir, seg).err = ""
       /\ \A seg \in FinalizedNamedDraft : openSegment(dir, seg).err = "corrupt"
       /\ (ret.op = "KillMidFinalize" /\ ret'.op = "Read")
              => IF FinalizedNamedDraft = {}
                 THEN ret'.err = "" /\ IdsAndDataOf(ret'.out) = IdsAndDataOf(written)
                 ELSE ret'.err = "corrupt"]_vars

\* The journal was read in full after a kill that left the last segment with
\* its Draft name and the Finalized magic.
C32_Witness ==
    /\ ret.op = "Read"
    /\ ret.err = ""
    /\ IdsAndDataOf(ret.out) = IdsAndDataOf(written)
    /\ written # <<>>
    /\ crashes = 1
    /\ DraftNamedFinalized # {}

\* ----------------------------------- the preparation, one iteration at a time

\* How many times a file may vanish from the directory during preparations.
MaxVanish == 2

\* prepareToWrite_locked_once up to the return of lastSegment: the catalog is
\* initialized and its last segment chosen.
PrepareListStep ==
    LET w0 == WithInit(TheWorld)
    IN /\ ~panicked
       /\ wl.p = "preparing"
       /\ Becomes(w0)
       /\ wl' = [wl EXCEPT !.p = "open", !.last = last(w0.js)]
       /\ UNCHANGED <<sl, now, written, crashes, ret>>

\* The rest of prepareToWrite_locked_once and what prepareToWrite_locked makes
\* of its result: on errFileGone the catalog is reset and the loop goes on,
\* otherwise the goroutine of StartWriting ends with fail(err).  ret.out holds
\* the segments the preparation has opened, ret.seg the last one it chose.
PrepareOpenStep ==
    LET r == prepareLast(TheWorld, wl.last, wl.failed)
        opened == IF IsZero(wl.last) \/ r.err = "failed twice"
                  THEN wl.tried ELSE Append(wl.tried, wl.last)
    IN /\ ~panicked
       /\ wl.p = "open"
       /\ IF r.err = "gone"
          THEN /\ Becomes(resetState(r.w))
               /\ wl' = [wl EXCEPT !.p = "preparing", !.failed = r.failed,
                                   !.last = ZeroSeg, !.tried = opened]
               /\ ret' = ret
          ELSE /\ Becomes(fail(r.w, r.err))
               /\ wl' = [wl EXCEPT !.p = "idle", !.holder = "none", !.failed = ZeroSeg,
                                   !.last = ZeroSeg, !.tried = <<>>]
               /\ ret' = Ret("Prepared", r.err, opened, wl.last, 0)
       /\ UNCHANGED <<sl, now, written, crashes>>

\* Between lastSegment and the opening of the segment a file vanishes from the
\* directory.
FileVanishes ==
    /\ wl.p = "open"
    /\ wl.vanishes < MaxVanish
    /\ \E seg \in DOMAIN dir :
           /\ dir' = Remove(dir, seg)
           /\ wl' = [wl EXCEPT !.vanishes = @ + 1,
                               !.lost = @ \cup {[seg |-> seg, file |-> dir[seg]]}]
    /\ UNCHANGED <<js, jw, panicked, sl, now, written, crashes, ret>>

\* A file that vanished is back before the directory is listed again.
FileReappears ==
    /\ wl.p = "preparing"
    /\ \E l \in wl.lost :
           /\ l.seg \notin DOMAIN dir
           /\ dir' = Put(dir, l.seg, l.file)
           /\ wl' = [wl EXCEPT !.lost = @ \ {l}]
    /\ UNCHANGED <<js, jw, panicked, sl, now, written, crashes, ret>>

\* One thread that writes and rotates, StartWriting with its preparation in
\* steps, and files that vanish and come back while it runs.
NextPrepare ==
    \/ ABegin
    \/ AEnd
    \/ FinalizeRenameStep
    \/ FinalizeUpdateStep
    \/ StartBegin
    \/ PrepareListStep
    \/ PrepareOpenStep
    \/ FileVanishes
    \/ FileReappears

SpecPrepare == Init /\ [][NextPrepare]_vars

\* No segment twice in segs.
NoRepeats(segs) == \A i, k \in DOMAIN segs : segs[i] = segs[k] => i = k

\* C33: the loop of a preparation goes round once more only after a file was
\* found gone, so it ends; every errFileGone resets the catalog and lets the
\* loop choose again; a choice of the segment that has just failed ends the
\* preparation with the "failed twice" error, and with it only; no segment is
\* opened twice within one preparation.
C33_PreparationEnds ==
    [][/\ NoRepeats(wl'.tried)
       /\ Len(wl'.tried) <= wl'.vanishes
       /\ (wl.p = "open" /\ wl'.p = "preparing")
              => ~js'.initialized /\ wl'.failed = wl.last /\ wl.last \notin DOMAIN dir'
       /\ (wl.p = "open" /\ wl'.p = "idle")
              => /\ NoRepeats(ret'.out)
                 /\ Len(ret'.out) <= wl.vanishes + 1
                 /\ ret'.err = "failed twice" <=> (~IsZero(wl.last) /\ wl.last = wl.failed)
                 /\ ret'.err = "failed twice" => dir' = dir]_vars

\* --------------------------------------------- the catalog's initialization

\* The files another process may put into the directory or take out of it.
OutsideFiles ==
    {Seg("Finalized", 1, 1, 1), Seg("Sealed", 1, 1, 1), Seg("Finalized", 2, 2, 2),
     Seg("sealingTemp", 2, 2, 2), Seg("Draft", 3, 3, 3)}

\* What can fail in the directory: nothing, its listing, the removal of a file.
DirFaults == {"", "enum", "remove"}

\* Journal.lastSegment: the catalog's last segment, or the error of its
\* initialization.  ret.out holds the two sequences of the catalog.
DoLastSegment ==
    LET r == ensureInitializedWith(js, dir, wl.fault)
    IN /\ js' = r.js
       /\ dir' = r.dir
       /\ ret' = Ret("lastSegment", r.err, <<r.js.sealed, r.js.unsealed>>,
                     IF r.err = "" THEN last(r.js) ELSE ZeroSeg, 0)
       /\ UNCHANGED <<wl, jw, panicked, sl, now, written, crashes>>

\* Journal.nextToSeal, which initializes the catalog in the same way.
DoNextToSeal ==
    LET r == ensureInitializedWith(js, dir, wl.fault)
    IN /\ js' = r.js
       /\ dir' = r.dir
       /\ ret' = Ret("nextToSeal", r.err, <<r.js.sealed, r.js.unsealed>>,
                     IF r.err = "" THEN nextToSeal(r.js) ELSE ZeroSeg, 0)
       /\ UNCHANGED <<wl, jw, panicked, sl, now, written, crashes>>

\* Journal.resetState
DoResetState ==
    /\ js' = reset(js)
    /\ ret' = Ret("resetState", "", <<>>, ZeroSeg, 0)
    /\ UNCHANGED <<wl, dir, jw, panicked, sl, now, written, crashes>>

\* Another process puts a file into the directory or takes one out.
Outside ==
    /\ \E seg \in OutsideFiles :
           dir' = IF Exists(dir, seg) THEN Remove(dir, seg)
                  ELSE Put(dir, seg, File(Header(IF IsSealed(seg.status) THEN "S"
                                                 ELSE IF IsDraft(seg.status) THEN "D" ELSE "F",
                                                 seg.segnum, seg.ts, seg.recnum, 0, 0), <<>>))
    /\ ret' = Ret("Outside", "", <<>>, ZeroSeg, 0)
    /\ UNCHANGED <<wl, js, jw, panicked, sl, now, written, crashes>>

\* The directory starts or stops failing.
DirFault ==
    /\ \E f \in DirFaults \ {wl.fault} : wl' = [wl EXCEPT !.fault = f]
    /\ ret' = Ret("DirFault", "", <<>>, ZeroSeg, 0)
    /\ UNCHANGED <<dir, js, jw, panicked, sl, now, written, crashes>>

\* Accesses to the catalog and resets of it, over a directory that changes and
\* fails.
NextInit ==
    \/ DoLastSegment
    \/ DoNextToSeal
    \/ DoResetState
    \/ Outside
    \/ DirFault

SpecInit == Init /\ [][NextInit]_vars

\* The step is an access to the catalog.
Accesses == ret'.op \in {"lastSegment", "nextToSeal"}

\* The segments the catalog lists.
ListedIn(state) == SeqRange(state.sealed) \cup SeqRange(state.unsealed)

\* C34: the first access after a reset lists the directory and stores the
\* sequences or the error; every later access, until resetState, returns what
\* is stored (the same error, or an answer from the stored sequences) and
\* neither changes the catalog nor touches the directory, whatever has become
\* of the directory in between.
C34_InitializedOncePerReset ==
    [][/\ (Accesses /\ js.initialized)
              => /\ js' = js /\ dir' = dir
                 /\ ret'.err = js.err
                 /\ ret'.out = <<js.sealed, js.unsealed>>
       /\ (Accesses /\ ~js.initialized)
              => /\ js'.initialized
                 /\ js'.err = ret'.err
                 /\ ret'.err = "" => /\ wl.fault # "enum"
                                     /\ ListedIn(js') \subseteq DOMAIN dir
                                     /\ \A seg \in DOMAIN dir' : seg.status # "sealingTemp"
                 /\ wl.fault = "enum" => ret'.err # "" /\ dir' = dir
       /\ ret'.op = "resetState" => ~js'.initialized /\ js'.err = ""]_vars

\* An access returns the stored error although the directory has stopped
\* failing, and the catalog has stayed as the failed initialization left it.
C34_Witness ==
    /\ ret.op = "lastSegment"
    /\ ret.err # ""
    /\ wl.fault = ""
    /\ js.initialized
    /\ DOMAIN dir # {}

\* ------------------------------------------------- timestamps within a segment

\* The segment of the directory d that holds the record id: the unsealed file
\* with the highest first record number not above id.
SegmentOf(d, id) ==
    CHOOSE seg \in DOMAIN d :
        /\ seg.recnum <= id
        /\ \A s \in DOMAIN d : s.recnum <= id => s.recnum <= seg.recnum

\* The largest among the segment's first timestamp and the timestamps the
\* callers gave to the segment's records up to the record id.
RunningMax(seg, id) ==
    MaxOf({seg.ts} \cup {written[k].Timestamp : k \in seg.recnum..id})

\* C35: every record a cursor reads back carries the largest of its caller's
\* timestamp, the callers' timestamps of the earlier records of its segment
\* and the segment's first timestamp.
C35_TimestampIsRunningMax ==
    [][ret'.op = "Read"
           => \A k \in DOMAIN ret'.out :
                  LET rec == ret'.out[k]
                  IN /\ rec.ID \in DOMAIN written
                     /\ rec.Timestamp = RunningMax(SegmentOf(dir', rec.ID), rec.ID)
                     /\ rec.Timestamp >= written[rec.ID].Timestamp]_vars

\* A cursor has read back a record with a later timestamp than its caller gave
\* it: the timestamp of the record before it in its segment, which is later
\* than the segment's first timestamp.
C35_Witness ==
    /\ ret.op = "Read"
    /\ ret.err = ""
    /\ \E k \in DOMAIN ret.out :
           /\ k > 1
           /\ ret.out[k].Timestamp > written[ret.out[k].ID].Timestamp
           /\ SegmentOf(dir, ret.out[k].ID) = SegmentOf(dir, ret.out[k - 1].ID)
           /\ ret.out[k].Timestamp = written[ret.out[k - 1].ID].Timestamp
           /\ SegmentOf(dir, ret.out[k].ID).ts < ret.out[k].Timestamp

\* ----------------------------------------------------- commits that change nothing

\* The Draft files that read to their end with every record committed.
IntactDrafts ==
    {seg \in FilesOf(dir, "Draft") :
        Let(verifySegment(dir[seg], seg), LAMBDA sr : sr.err = "" /\ sr.size = sr.committedSize)}

\* The newest file of the directory is an intact Draft and no segment is open.
ClosedIntactDraft ==
    /\ jw.segWriter = Nil
    /\ jw.writeErr = ""
    /\ \E seg \in IntactDrafts : \A s \in DOMAIN dir : s.segnum <= seg.segnum

\* C36: a Commit with no uncommitted record changes no byte of the directory,
\* so a Commit after a Commit changes nothing; a StartWriting that finds an
\* intact Draft opens it with nothing uncommitted and changes no byte, and a
\* FinishWriting that follows a StartWriting with nothing uncommitted leaves
\* the directory byte for byte as it was.
C36_CommitIsIdempotent ==
    [][/\ (ret'.op = "Commit" /\ (jw.segWriter = Nil \/ ~jw.segWriter.uncommitted)) => dir' = dir
       /\ (ret.op = "Commit" /\ ret'.op = "Commit") => dir' = dir
       /\ (ret'.op = "StartWriting" /\ ClosedIntactDraft)
              => dir' = dir /\ jw'.segWriter # Nil /\ ~jw'.segWriter.uncommitted
       /\ (/\ ret.op = "StartWriting" /\ ret'.op = "FinishWriting"
           /\ (jw.segWriter = Nil \/ ~jw.segWriter.uncommitted)) => dir' = dir]_vars

\* StartWriting has resumed an intact Draft that holds records, and nothing
\* has been written since.
C36_Witness ==
    /\ ret.op = "StartWriting"
    /\ jw.segWriter # Nil
    /\ ~jw.segWriter.modified
    /\ jw.segWriter.seg \in IntactDrafts
    /\ Len(dir[jw.segWriter.seg].bytes) > 0

\* ------------------------------------------------ what the operations leave alone

WriterOps == {"WriteRecord", "Commit", "FinishWriting", "Rotate"}

SealerOps == {"Seal", "Trim"}

\* The file f of the directory d is in e under the same name with the same
\* header and bytes.
Untouched(d, e, f) == f \in DOMAIN e /\ e[f] = d[f]

\* The file g continues the file f: the bytes of f and then zero or more bytes.
Continues(f, g) ==
    /\ Len(g.bytes) >= Len(f.bytes)
    /\ SubSeq(g.bytes, 1, Len(f.bytes)) = f.bytes

\* The Draft f of d is in e appended to, or renamed to Finalized and at most
\* appended to.
AppendedOrFinalized(d, e, f) ==
    \E g \in DOMAIN e :
        /\ g.segnum = f.segnum /\ g.ts = f.ts /\ g.recnum = f.recnum
        /\ g.status \in {"Draft", "Finalized"}
        /\ Continues(d[f], e[g])

HighestSegnum(d) ==
    IF DOMAIN d = {} THEN 0 ELSE CHOOSE n \in {s.segnum : s \in DOMAIN d} : \A s \in DOMAIN d : s.segnum <= n

\* C37: WriteRecord, Commit, FinishWriting and Rotate leave every Finalized,
\* Sealed and SealingTemp file and every Draft but the one with the highest
\* segnum as it was, append to that Draft or rename it to Finalized, and
\* create no file but a Draft with a segnum above all; Seal and Trim leave
\* every Draft as it was.
C37_WritersAndSealersKeepApart ==
    [][/\ ret'.op \in WriterOps =>
              /\ \A f \in DOMAIN dir :
                     IF f.status = "Draft" /\ f.segnum = HighestSegnum(dir)
                     THEN AppendedOrFinalized(dir, dir', f)
                     ELSE Untouched(dir, dir', f)
              /\ \A g \in DOMAIN dir' :
                     \/ \E f \in DOMAIN dir : f.segnum = g.segnum
                     \/ g.status = "Draft" /\ g.segnum > HighestSegnum(dir)
       /\ ret'.op \in SealerOps =>
              \A f \in FilesOf(dir, "Draft") : Untouched(dir, dir', f)]_vars

\* ------------------------------------------------- the catalog and the directory

\* No call of the writer, of Seal or of Trim is under way.
NoOperationInProgress ==
    /\ ~panicked
    /\ wl.holder = "none" /\ wl.a.op = "idle" /\ wl.b = "idle" /\ wl.s = "idle" /\ wl.p = "idle"
    /\ sl.pc = "idle"

\* The Draft, Finalized and Sealed files of the directory d.
SegmentFiles(d) == {f \in DOMAIN d : f.status \in {"Draft", "Finalized", "Sealed"}}

\* C38: whenever no operation is in progress and the catalog is initialized,
\* the segments the catalog lists are exactly the Draft, Finalized and Sealed
\* files of the directory, with the same status, segnum, first timestamp and
\* first record number.
C38_CatalogListsTheDirectory ==
    (NoOperationInProgress /\ js.initialized) => ListedIn(js) = SegmentFiles(dir)

\* --------------------------------------------------- writes that the disk refuses

\* Where a failing write of a record stops: at the record's header, of which
\* nothing reaches the file, or at its data, the header written.
WriteFaults == {"header", "data"}

\* segmentWriter.writeRecord when a Write of the file fails: the running
\* timestamp and the hash have moved on, the counters have not.
writeRecordFails(w, ts, data, part) ==
    Let(w.jw.segWriter, LAMBDA sw :
    Let(appendRecordHeader(Len(data), IF ts > sw.ts THEN ts - sw.ts ELSE 0), LAMBDA h :
        [w EXCEPT !.dir = IF part = "data" THEN WriteBytes(@, sw.seg, h) ELSE @,
                  !.jw.segWriter = [sw EXCEPT !.ts = IF ts > sw.ts THEN ts ELSE @,
                                              !.dataHash = IF part = "data"
                                                           THEN HashWriteAll(HashWriteAll(@, h), data)
                                                           ELSE HashWriteAll(@, h)]]))

\* WriteRecord with a segment open, the write failing: the record is noted as
\* the last uncommitted one, and the error goes through fail.
WriteToOpenFails(w, timestamp, data, nowTS, part) ==
    fail(writeRecordFails(
             [w EXCEPT !.jw.segWriter.firstUncommittedWriteTS =
                           IF w.jw.segWriter.uncommitted THEN @ ELSE nowTS,
                       !.js = setLastUncommittedRecord(@, Meta(w.jw.segWriter.nextRec, timestamp))],
             timestamp, data, part),
         "io")

\* journalWriter.WriteRecord of non-empty data when the write of the record
\* fails.  Gives [w, err].
WriteRecordFails(w, ts, data, nowTS, part) ==
    Let(IF ts = 0 THEN nowTS ELSE ts, LAMBDA timestamp :
    Let(ensurePreparedToWrite_locked(w), LAMBDA p :
        IF p.err # "" THEN [w |-> p.w, err |-> ""]
        ELSE Let(IF p.w.jw.segWriter # Nil /\ shouldRotate(p.w.jw.segWriter, Len(data))
                 THEN close_locked(p.w, closeAndFinalize)
                 ELSE [w |-> p.w, err |-> ""], LAMBDA c :
             IF c.err # "" THEN [w |-> c.w, err |-> c.err]
             ELSE IF c.w.jw.segWriter = Nil
             THEN Let(startSegment(c.w, c.w.jw.nextSegNum, timestamp, c.w.jw.nextRecNum), LAMBDA s :
                      [w |-> WriteToOpenFails([s.w EXCEPT !.jw.segWriter = s.sw],
                                              timestamp, data, nowTS, part),
                       err |-> "io"])
             ELSE [w |-> WriteToOpenFails(c.w, timestamp, data, nowTS, part), err |-> "io"])))

\* journalWriter.Commit when the write of the commit marker fails: the error
\* goes through fail, and the last record is unknown from then on.
CommitFails(w) ==
    Let(w.jw.segWriter, LAMBDA sw :
        [fail([w EXCEPT !.jw.segWriter =
                            [sw EXCEPT !.uncommitted = FALSE,
                                       !.modified = TRUE,
                                       !.size = @ + commitSize,
                                       !.dataHash = HashWriteAll(@, CommitBytes(CommitSum(sw.dataHash)))]],
              "io")
         EXCEPT !.js = setLastRecordUnknown(@)])

\* A WriteRecord whose write the disk refuses.
DoWriteRecordFails ==
    \E ts \in 0..MaxClock, data \in Payloads \ {<<>>}, part \in WriteFaults :
        LET r == WriteRecordFails(TheWorld, ts, data, now, part)
        IN /\ ~panicked
           /\ crashes < MaxCrashes
           /\ Len(written) < MaxRecs
           /\ Becomes(r.w)
           /\ crashes' = crashes + 1
           /\ ret' = Ret("WriteRecord", r.err, <<data>>, ZeroSeg, 0)
           /\ UNCHANGED <<wl, sl, now, written>>

\* A Commit of an uncommitted record whose write the disk refuses.
DoCommitFails ==
    /\ ~panicked
    /\ crashes < MaxCrashes
    /\ jw.segWriter # Nil
    /\ jw.segWriter.uncommitted
    /\ Becomes(CommitFails(TheWorld))
    /\ crashes' = crashes + 1
    /\ ret' = Ret("Commit", "io", <<>>, ZeroSeg, 0)
    /\ UNCHANGED <<wl, sl, now, written>>

\* Writing on a disk that may refuse a write.
NextWriteErr ==
    \/ DoWriteRecord
    \/ DoCommit
    \/ DoFinishWriting
    \/ DoStartWriting
    \/ DoWriteRecordFails
    \/ DoCommitFails

SpecWriteErr == Init /\ [][NextWriteErr]_vars

\* The record id is followed by a commit marker in a file of the directory.
CommittedOnDisk(id) ==
    \E seg \in DOMAIN dir :
        /\ seg.recnum <= id
        /\ id <= verifySegment(dir[seg], seg).committedRec

\* C39: whenever the last-record metadata is known, the last committed id is
\* at most the last uncommitted id, and it is 0 or the id of a record that a
\* commit marker on disk covers.
C39_LastCommittedIsCommitted ==
    js.lastKnown =>
        /\ js.lastCommitted.ID <= js.lastRaw.ID
        /\ js.lastCommitted.ID = 0 \/ CommittedOnDisk(js.lastCommitted.ID)

\* ------------------------------------- the writer's recovery beside a running Seal

\* The file a running Seal has in hand: the temporary file while the records
\* are copied, the Sealed file once the temporary file is renamed.
SealInHand ==
    IF sl.pc = "sealCopy" THEN {WithStatus(sl.next, "sealingTemp")}
    ELSE IF sl.pc = "sealDone" /\ sl.err = "" THEN {sl.seg}
    ELSE {}

\* C40: a call of the writer made while a Seal is in progress, the catalog
\* reset and initialized again within it or not, leaves in the directory the
\* temporary file the Seal is writing and the Sealed file it has just renamed,
\* and a Seal that ends without an error ends with the Sealed segment in the
\* directory and in the catalog.
C40_SealSurvivesReinitialization ==
    [][/\ (sl' = sl /\ ret'.op \in {"WriteRecord", "StartWriting", "FinishWriting"})
              => \A f \in SealInHand : f \in DOMAIN dir => f \in DOMAIN dir'
       /\ (sl.pc = "sealDone" /\ sl'.pc = "idle" /\ ret'.op = "Seal" /\ ret'.err = "")
              => /\ ret'.seg \in DOMAIN dir'
                 /\ ret'.seg \in SeqRange(js'.sealed)]_vars

====
